---- MODULE Spec2Model ----
(***************************************************************************)
(* engine::impl::TaskContext (core/src/engine/task/task_context.cpp): the  *)
(* per-task state machine of the coroutine runtime.  Two task contexts are *)
(* modelled: "T", a task with an arbitrary payload that sleeps on wait     *)
(* lists and deadlines, and "W", a task whose payload waits for T to       *)
(* finish (TaskContext::WaitUntil).  Every shared-memory access of the     *)
(* code (an atomic load, store, fetch_or or compare-exchange, a ready      *)
(* queue or wait list operation) is one step, so that the interleavings of *)
(* the worker threads, the timer thread and the callers of Wakeup() and    *)
(* RequestCancel() are those of the code.                                  *)
(***************************************************************************)
EXTENDS Naturals, FiniteSets, Sequences, TLC

Tasks == {"T", "W"}

\* utils::Flags<SleepStateFlags>: a set of these flags.
SleepStateFlags == {"kSleeping", "kNonCancellable", "kWakeupByWaitList", "kWakeupByDeadlineTimer", "kWakeupByCancelRequest", "kWakeupByBootstrap"}

WakeupSource == {"kWaitList", "kDeadlineTimer", "kCancelRequest", "kBootstrap"}

TaskState == {"kNew", "kQueued", "kRunning", "kSuspended", "kCompleted", "kCancelled"}

YieldReason == {"kNone", "kTaskWaiting", "kTaskCancelled", "kTaskComplete"}

\* The reasons the two cancelling callers pass to RequestCancel().
ReasonOf == [c1 |-> "kUserRequest", c2 |-> "kOverload"]

Cancellers == {"c1", "c2"}

\* The threads that call Wakeup() on a context from outside its own DoStep():
\* the owner (bootstrap), a wait list's WakeupOne, the deadline timer's
\* callback, and the callers of RequestCancel().
Wakers == {"owner", "wl", "timer"} \cup Cancellers

FlagOf(source) ==
  CASE source = "kWaitList" -> "kWakeupByWaitList"
    [] source = "kDeadlineTimer" -> "kWakeupByDeadlineTimer"
    [] source = "kCancelRequest" -> "kWakeupByCancelRequest"
    [] source = "kBootstrap" -> "kWakeupByBootstrap"

SourceOf(k) ==
  CASE k = "owner" -> "kBootstrap"
    [] k = "wl" -> "kWaitList"
    [] k = "timer" -> "kDeadlineTimer"
    [] OTHER -> "kCancelRequest"

IsFinishedState(s) == s \in {"kCompleted", "kCancelled"}

\* ShouldSchedule with the kNonCancellable flag dropped before a cancel
\* request's test.
ShouldScheduleCancelIgnoresNonCancellable(prev_flags, source) ==
  IF "kSleeping" \notin prev_flags THEN FALSE
  ELSE IF source = "kCancelRequest" THEN prev_flags \ {"kNonCancellable"} = {"kSleeping"}
  ELSE IF source = "kBootstrap" THEN TRUE
  ELSE LET cleared == IF "kNonCancellable" \in prev_flags
                      THEN prev_flags \ {"kNonCancellable", "kWakeupByCancelRequest"}
                      ELSE prev_flags
       IN cleared = {"kSleeping"}

\* ShouldSchedule whose cancel request never schedules.
ShouldScheduleNeverOnCancel(prev_flags, source) ==
  IF "kSleeping" \notin prev_flags THEN FALSE
  ELSE IF source = "kCancelRequest" THEN FALSE
  ELSE IF source = "kBootstrap" THEN TRUE
  ELSE LET cleared == IF "kNonCancellable" \in prev_flags
                      THEN prev_flags \ {"kNonCancellable", "kWakeupByCancelRequest"}
                      ELSE prev_flags
       IN cleared = {"kSleeping"}

\* ShouldSchedule without its test of kSleeping: the first wakeup bit schedules.
ShouldScheduleWithoutSleeping(prev_flags, source) ==
  prev_flags \ {"kSleeping", "kNonCancellable"} = {}

\* ShouldSchedule whose kBootstrap schedules only as the first wakeup.
ShouldScheduleBootstrapOnlyFirst(prev_flags, source) ==
  IF "kSleeping" \notin prev_flags THEN FALSE
  ELSE IF source = "kCancelRequest" THEN prev_flags = {"kSleeping"}
  ELSE LET cleared == IF "kNonCancellable" \in prev_flags
                      THEN prev_flags \ {"kNonCancellable", "kWakeupByCancelRequest"}
                      ELSE prev_flags
       IN cleared = {"kSleeping"}

\* TaskContext::ShouldSchedule(prev_flags, source)
ShouldSchedule(prev_flags, source) ==
  IF "kSleeping" \notin prev_flags THEN FALSE
  ELSE IF source = "kCancelRequest" THEN prev_flags = {"kSleeping"}
  ELSE IF source = "kBootstrap" THEN TRUE
  ELSE LET cleared == IF "kNonCancellable" \in prev_flags
                      THEN prev_flags \ {"kNonCancellable", "kWakeupByCancelRequest"}
                      ELSE prev_flags
       IN cleared = {"kSleeping"}

\* The table with its first two rows exchanged.
PrimarySourcesTimerFirst == << <<"kWakeupByDeadlineTimer", "kDeadlineTimer">>, <<"kWakeupByWaitList", "kWaitList">>, <<"kWakeupByBootstrap", "kBootstrap">> >>

\* The table l[] of GetPrimaryWakeupSource, in its order.
PrimarySources == << <<"kWakeupByWaitList", "kWaitList">>, <<"kWakeupByDeadlineTimer", "kDeadlineTimer">>, <<"kWakeupByBootstrap", "kBootstrap">> >>

RECURSIVE FirstPrimary(_, _, _)
FirstPrimary(l, flags, i) ==
  IF i > Len(l)
  THEN IF "kWakeupByCancelRequest" \in flags /\ "kNonCancellable" \notin flags
       THEN "kCancelRequest"
       ELSE "logic_error"
  ELSE IF l[i][1] \in flags THEN l[i][2] ELSE FirstPrimary(l, flags, i + 1)

\* TaskContext::GetPrimaryWakeupSource(sleep_state); "logic_error" is the throw.
GetPrimaryWakeupSource(flags) == FirstPrimary(PrimarySources, flags, 1)

\* SetState's "CAS optimization": the old state it first expects.
CasHint(new_state) ==
  CASE new_state = "kQueued" -> "kSuspended"
    [] new_state = "kRunning" -> "kQueued"
    [] new_state \in {"kSuspended", "kCompleted"} -> "kRunning"
    [] new_state = "kCancelled" -> "kSuspended"

VARIABLES
  state,                \* state_
  sleep_state,          \* sleep_state_
  wakeup_source,        \* wakeup_source_
  cancellation_reason,  \* cancellation_reason_
  is_cancellable,       \* is_cancellable_
  is_critical,          \* is_critical_
  coro,                 \* coro_: a coroutine frame is attached
  payload,              \* payload_: "set", "moved" (called) or "destroyed"
  task_pipe,            \* task_pipe_ != nullptr: the coroutine is inside CoroFunc's body
  yield_reason,         \* yield_reason_
  wait_manager,         \* wait_manager_: "null", "manual" or "finish"
  pc,                   \* where the worker / the coroutine of the task stands
  new_sleep_state,      \* DoStep's local new_sleep_state
  old_sleep_state,      \* Sleep's local old_sleep_state (kept until the coroutine next yields)
  cas_old,              \* SetState's local old_state
  ready,                \* entries of the task in the task processor's ready queue
  waiting,              \* the wait list that holds the task as its waiter: "none", "manual", "finish"
  timer,                \* Sleep's deadline_timer: "none" or "armed"
  wk,                   \* where each outside caller of Wakeup / RequestCancel stands
  cancel_count,         \* TaskCounter: AccountTaskCancel() calls
  wu_result,            \* how WaitUntil ended in the task: "none", "returned", "interrupted"
  schedCalls,           \* history: Schedule() calls since the task last parked (or was built)
  wakerScheds,          \* history: those of them made by Wakeup()
  payloadCalls,         \* history: invocations of the payload
  wakeAllCalls,         \* history: WakeupAll() calls on the task's finish_waiters
  cancelledBeforeStart, \* history: the task was cancel-requested when its first DoStep began
  deadline_passed,      \* history: the Sleep the task is in found its deadline already passed
  worker,               \* the thread-locals of the worker thread inside DoStep of the task, or NoThread
  idle_workers,         \* the thread-locals of the worker threads that run no task: how many of each
  eh_globals,           \* eh_globals_: whose exception-handling globals the task's store holds
  multi_producer,       \* GenericQueue's template parameter MultipleProducer
  multi_consumer,       \* GenericQueue's template parameter MultipleConsumer
  producers_count,      \* producers_count_
  consumers_count,      \* consumers_count_
  capacity,             \* capacity_
  remaining_capacity,   \* ProducerSide::remaining_capacity_ (atomic counter or semaphore permits)
  size,                 \* ConsumerSide::size_ (atomic counter or semaphore permits)
  nonfull_event,        \* ProducerSide<false>::nonfull_event_ is signaled
  nonempty_event,       \* ConsumerSide<false>::nonempty_event_ is signaled
  queue,                \* queue_: the values held by the inner queue
  has_handle,           \* the actor owns a live Producer / Consumer handle
  qpc,                  \* where each actor stands inside its queue operation
  frame,                \* the locals of the operation each actor is in
  qres,                 \* what the last finished Push / Pop of the actor returned
  next_value,           \* the next value a producer will push
  gets,                 \* how many handles were taken on each side
  resizes,              \* how many times SetSoftMaxSize was called
  suspended,            \* history: the actor's current (or last) operation suspended the task
  started_dead,         \* history: the opposite side was kCreatedAndDead when the operation began
  push_result,          \* history: what the Push / PushNoblock of each value returned
  popped,               \* history: the values each consumer's Pop / PopNoblock returned, in order
  drained,              \* history: the values ~GenericQueue() took out of the inner queue
  dtor                  \* where ~GenericQueue() stands

\* The worker threads of the task processor.
NumWorkers == 2

\* What a worker thread keeps in thread-local storage: current_task_context_ptr
\* and the exception-handling globals it has installed ("thread": its own).
ThreadLocals == [current_task_context_ptr : Tasks \cup {"nullptr"}, eh : Tasks \cup {"thread"}]

FreshThread == [current_task_context_ptr |-> "nullptr", eh |-> "thread"]

\* The value of worker[t] while no worker thread is inside DoStep of t.
NoThread == [current_task_context_ptr |-> "none", eh |-> "none"]

scopeVars == <<worker, idle_workers, eh_globals>>

queueVars == <<multi_producer, multi_consumer, producers_count, consumers_count, capacity, remaining_capacity, size, nonfull_event, nonempty_event, queue, has_handle, qpc, frame, qres, next_value, gets, resizes, suspended, started_dead, push_result, popped, drained, dtor>>

taskVars == <<state, sleep_state, wakeup_source, cancellation_reason, is_cancellable, is_critical, scopeVars, coro, payload, task_pipe, yield_reason, wait_manager, pc, new_sleep_state, old_sleep_state, cas_old, ready, waiting, timer, wk, cancel_count, wu_result, schedCalls, wakerScheds, payloadCalls, wakeAllCalls, cancelledBeforeStart, deadline_passed>>

vars == <<state, sleep_state, wakeup_source, cancellation_reason, is_cancellable, is_critical, scopeVars, queueVars, coro, payload, task_pipe, yield_reason, wait_manager, pc, new_sleep_state, old_sleep_state, cas_old, ready, waiting, timer, wk, cancel_count, wu_result, schedCalls, wakerScheds, payloadCalls, wakeAllCalls, cancelledBeforeStart, deadline_passed>>

\* TaskContext::TaskContext, for every importance; in its state after construction.
TaskInit ==
  /\ state = [t \in Tasks |-> "kNew"]
  /\ sleep_state = [t \in Tasks |-> {"kSleeping"}]
  /\ wakeup_source = [t \in Tasks |-> "kNone"]
  /\ cancellation_reason = [t \in Tasks |-> "kNone"]
  /\ is_cancellable = [t \in Tasks |-> TRUE]
  /\ is_critical \in {f \in [Tasks -> BOOLEAN] : ~f["W"]}
  /\ coro = [t \in Tasks |-> FALSE]
  /\ payload = [t \in Tasks |-> "set"]
  /\ task_pipe = [t \in Tasks |-> FALSE]
  /\ yield_reason = [t \in Tasks |-> "kNone"]
  /\ wait_manager = [t \in Tasks |-> "null"]
  /\ pc = [t \in Tasks |-> "idle"]
  /\ new_sleep_state = [t \in Tasks |-> {}]
  /\ old_sleep_state = [t \in Tasks |-> {}]
  /\ cas_old = [t \in Tasks |-> "kNew"]
  /\ ready = [t \in Tasks |-> 0]
  /\ waiting = [t \in Tasks |-> "none"]
  /\ timer = [t \in Tasks |-> "none"]
  /\ wk = [t \in Tasks |-> [k \in Wakers |-> "idle"]]
  /\ cancel_count = 0
  /\ wu_result = [t \in Tasks |-> "none"]
  /\ schedCalls = [t \in Tasks |-> 0]
  /\ wakerScheds = [t \in Tasks |-> 0]
  /\ payloadCalls = [t \in Tasks |-> 0]
  /\ wakeAllCalls = [t \in Tasks |-> 0]
  /\ cancelledBeforeStart = [t \in Tasks |-> FALSE]
  /\ deadline_passed = [t \in Tasks |-> FALSE]
  /\ worker = [t \in Tasks |-> NoThread]
  /\ idle_workers = [th \in ThreadLocals |-> IF th = FreshThread THEN NumWorkers ELSE 0]
  /\ eh_globals = [t \in Tasks |-> t]

(***************************************************************************)
(* concurrent::GenericQueue<T, MultipleProducer, MultipleConsumer>.        *)
(* std::size_t is modelled with SizeBits bits, so that the sentinels keep  *)
(* their place in the value range: kCreatedAndDead is the maximum value,   *)
(* kUnbounded and kSemaphoreUnlockValue are half of it.                    *)
(***************************************************************************)
SizeBits == 4

SizeMod == 2 ^ SizeBits

SizeMax == SizeMod - 1

kUnbounded == SizeMax \div 2

kCreatedAndDead == SizeMax

kSemaphoreUnlockValue == SizeMax \div 2

\* Unsigned arithmetic of std::size_t.
Add(a, b) == (a + b) % SizeMod

Sub(a, b) == (a + SizeMod - b) % SizeMod

\* The tasks that own Producer handles, Consumer handles, and the task that
\* calls SetSoftMaxSize.
Producers == {"p1", "p2"}

Consumers == {"c1", "c2"}

Resizers == {"r"}

Actors == Producers \cup Consumers \cup Resizers

\* How many values the producers push in a behaviour: 1, 2, ... in the order
\* of the calls.
MaxValues == 2

Values == 1..MaxValues

NoFrame == [blocking |-> FALSE, reachable |-> FALSE, attempt |-> 0, value |-> 0, old |-> 0]

\* A constructor that leaves kSemaphoreUnlockValue permits on both sides.
QueueCtorInstallsPermits(mp, mc, max_size) ==
  /\ multi_producer = mp
  /\ multi_consumer = mc
  /\ producers_count = 0
  /\ consumers_count = 0
  /\ capacity = IF max_size < kUnbounded THEN max_size ELSE kUnbounded
  /\ remaining_capacity = Add(IF max_size < kUnbounded THEN max_size ELSE kUnbounded, kSemaphoreUnlockValue)
  /\ size = kSemaphoreUnlockValue
  /\ nonfull_event = FALSE
  /\ nonempty_event = FALSE
  /\ queue = <<>>
  /\ has_handle = [a \in Actors |-> FALSE]
  /\ qpc = [a \in Actors |-> "idle"]
  /\ frame = [a \in Actors |-> NoFrame]
  /\ qres = [a \in Actors |-> "none"]
  /\ next_value = 1
  /\ gets = [producer |-> 0, consumer |-> 0]
  /\ resizes = 0
  /\ suspended = [a \in Actors |-> FALSE]
  /\ started_dead = [a \in Actors |-> FALSE]
  /\ push_result = [v \in Values |-> "none"]
  /\ popped = [a \in Consumers |-> <<>>]
  /\ drained = <<>>
  /\ dtor = "alive"

\* GenericQueue(max_size): both sides are built with kUnbounded, the consumer
\* side is emptied by DecreaseSize(kUnbounded), and SetSoftMaxSize(max_size)
\* takes kUnbounded - max_size away from the producer side.
QueueCtor(mp, mc, max_size) ==
  /\ multi_producer = mp
  /\ multi_consumer = mc
  /\ producers_count = 0
  /\ consumers_count = 0
  /\ capacity = IF max_size < kUnbounded THEN max_size ELSE kUnbounded
  /\ remaining_capacity = Sub(kUnbounded, Sub(kUnbounded, IF max_size < kUnbounded THEN max_size ELSE kUnbounded))
  /\ size = Sub(kUnbounded, kUnbounded)
  /\ nonfull_event = FALSE
  /\ nonempty_event = FALSE
  /\ queue = <<>>
  /\ has_handle = [a \in Actors |-> FALSE]
  /\ qpc = [a \in Actors |-> "idle"]
  /\ frame = [a \in Actors |-> NoFrame]
  /\ qres = [a \in Actors |-> "none"]
  /\ next_value = 1
  /\ gets = [producer |-> 0, consumer |-> 0]
  /\ resizes = 0
  /\ suspended = [a \in Actors |-> FALSE]
  /\ started_dead = [a \in Actors |-> FALSE]
  /\ push_result = [v \in Values |-> "none"]
  /\ popped = [a \in Consumers |-> <<>>]
  /\ drained = <<>>
  /\ dtor = "alive"

Init == TaskInit /\ QueueCtor(FALSE, FALSE, kUnbounded)

ctxVars == <<wakeup_source, is_cancellable, is_critical, coro, payload, task_pipe, yield_reason, wait_manager, scopeVars, queueVars>>

stepVars == <<pc, new_sleep_state, old_sleep_state, cas_old, wu_result>>

histVars == <<payloadCalls, wakeAllCalls, cancelledBeforeStart, deadline_passed>>

(***************************************************************************)
(* Wakeup(source) and RequestCancel(reason), called from another thread.   *)
(***************************************************************************)

\* Where caller k continues when its Wakeup() returns.
Ret(k) == IF k = "owner" THEN "done" ELSE IF k \in Cancellers THEN "acct" ELSE "idle"

\* The owner of a new context wakes it with kBootstrap, once.
Bootstrap(t) ==
  /\ wk[t]["owner"] = "idle"
  /\ wk' = [wk EXCEPT ![t]["owner"] = "fin"]
  /\ UNCHANGED <<state, sleep_state, cancellation_reason, ready, waiting, timer, cancel_count, schedCalls, wakerScheds, ctxVars, stepVars, histVars>>

\* WaitList::WakeupOne on the wait list the task sleeps on: the list gives up
\* its waiter and calls Wakeup(kWaitList) on it.
WakeupOne(t) ==
  /\ waiting[t] = "manual"
  /\ wk[t]["wl"] = "idle"
  /\ waiting' = [waiting EXCEPT ![t] = "none"]
  /\ wk' = [wk EXCEPT ![t]["wl"] = "fin"]
  /\ UNCHANGED <<state, sleep_state, cancellation_reason, ready, timer, cancel_count, schedCalls, wakerScheds, ctxVars, stepVars, histVars>>

\* The one-shot deadline timer armed by Sleep fires on its event thread.
TimerFires(t) ==
  /\ timer[t] = "armed"
  /\ wk[t]["timer"] = "idle"
  /\ timer' = [timer EXCEPT ![t] = "none"]
  /\ wk' = [wk EXCEPT ![t]["timer"] = "fin"]
  /\ UNCHANGED <<state, sleep_state, cancellation_reason, ready, waiting, cancel_count, schedCalls, wakerScheds, ctxVars, stepVars, histVars>>

\* RequestCancel with a plain store in place of the compare-exchange.
StoreCancellationReason(t, c) ==
  /\ wk[t][c] = "idle"
  /\ cancellation_reason' = [cancellation_reason EXCEPT ![t] = ReasonOf[c]]
  /\ wk' = [wk EXCEPT ![t][c] = "fin"]
  /\ UNCHANGED <<state, sleep_state, ready, waiting, timer, cancel_count, schedCalls, wakerScheds, ctxVars, stepVars, histVars>>

\* RequestCancel: the compare-exchange of cancellation_reason_ from kNone.
CasCancellationReason(t, c) ==
  /\ wk[t][c] = "idle"
  /\ IF cancellation_reason[t] = "kNone"
     THEN /\ cancellation_reason' = [cancellation_reason EXCEPT ![t] = ReasonOf[c]]
          /\ wk' = [wk EXCEPT ![t][c] = "fin"]
     ELSE /\ wk' = [wk EXCEPT ![t][c] = "done"]
          /\ UNCHANGED cancellation_reason
  /\ UNCHANGED <<state, sleep_state, ready, waiting, timer, cancel_count, schedCalls, wakerScheds, ctxVars, stepVars, histVars>>

\* RequestCancel on a context whose owner has issued the bootstrap wakeup.
RequestCancel(t, c) ==
  /\ wk[t]["owner"] = "done"
  /\ CasCancellationReason(t, c)

\* RequestCancel that reaches a context before its bootstrap wakeup has returned.
EarlyRequestCancel(t, c) ==
  /\ wk[t]["owner"] # "done"
  /\ CasCancellationReason(t, c)

\* Wakeup without its IsFinished() test.
WakeupWithoutIsFinished(t, k) ==
  /\ wk[t][k] = "fin"
  /\ wk' = [wk EXCEPT ![t][k] = IF k \in Cancellers THEN "nc" ELSE "or"]
  /\ UNCHANGED <<state, sleep_state, cancellation_reason, ready, waiting, timer, cancel_count, schedCalls, wakerScheds, ctxVars, stepVars, histVars>>

\* Wakeup: if (IsFinished()) return;
WakeupIsFinished(t, k) ==
  /\ wk[t][k] = "fin"
  /\ wk' = [wk EXCEPT ![t][k] = IF IsFinishedState(state[t]) THEN Ret(k)
                                 ELSE IF k \in Cancellers THEN "nc" ELSE "or"]
  /\ UNCHANGED <<state, sleep_state, cancellation_reason, ready, waiting, timer, cancel_count, schedCalls, wakerScheds, ctxVars, stepVars, histVars>>

\* Wakeup: a kCancelRequest returns if sleep_state_ holds kNonCancellable.
WakeupNonCancellable(t, k) ==
  /\ wk[t][k] = "nc"
  /\ wk' = [wk EXCEPT ![t][k] = IF "kNonCancellable" \in sleep_state[t] THEN Ret(k) ELSE "or"]
  /\ UNCHANGED <<state, sleep_state, cancellation_reason, ready, waiting, timer, cancel_count, schedCalls, wakerScheds, ctxVars, stepVars, histVars>>

\* Wakeup: prev = sleep_state_.FetchOr(source); ShouldSchedule(prev, source).
WakeupFetchOr(t, k) ==
  /\ wk[t][k] = "or"
  /\ sleep_state' = [sleep_state EXCEPT ![t] = @ \cup {FlagOf(SourceOf(k))}]
  /\ wk' = [wk EXCEPT ![t][k] = IF ShouldSchedule(sleep_state[t], SourceOf(k)) THEN "sched" ELSE Ret(k)]
  /\ UNCHANGED <<state, cancellation_reason, ready, waiting, timer, cancel_count, schedCalls, wakerScheds, ctxVars, stepVars, histVars>>

\* TaskContext::Schedule: SetState(kQueued), then TaskProcessor::Schedule(this).
Schedule(t) ==
  /\ state' = [state EXCEPT ![t] = "kQueued"]
  /\ ready' = [ready EXCEPT ![t] = @ + 1]
  /\ schedCalls' = [schedCalls EXCEPT ![t] = @ + 1]

\* Wakeup: Schedule(), when ShouldSchedule said so.
WakeupSchedule(t, k) ==
  /\ wk[t][k] = "sched"
  /\ Schedule(t)
  /\ wakerScheds' = [wakerScheds EXCEPT ![t] = @ + 1]
  /\ wk' = [wk EXCEPT ![t][k] = Ret(k)]
  /\ UNCHANGED <<sleep_state, cancellation_reason, waiting, timer, cancel_count, ctxVars, stepVars, histVars>>

\* RequestCancel: task_processor_.GetTaskCounter().AccountTaskCancel().
AccountTaskCancel(t, c) ==
  /\ wk[t][c] = "acct"
  /\ cancel_count' = cancel_count + 1
  /\ wk' = [wk EXCEPT ![t][c] = "done"]
  /\ UNCHANGED <<state, sleep_state, cancellation_reason, ready, waiting, timer, schedCalls, wakerScheds, ctxVars, stepVars, histVars>>

(***************************************************************************)
(* DoStep, on a worker thread of the task processor.                       *)
(***************************************************************************)

\* DoStep whose clear_flags lack kSleeping.
DoStepBeginKeepsSleeping(t) ==
  /\ pc[t] = "idle"
  /\ ready[t] > 0
  /\ ready' = [ready EXCEPT ![t] = @ - 1]
  /\ IF IsFinishedState(state[t])
     THEN UNCHANGED <<pc, coro, new_sleep_state, cancelledBeforeStart, worker, idle_workers>>
     ELSE /\ \E th \in ThreadLocals :
               /\ idle_workers[th] > 0
               /\ idle_workers' = [idle_workers EXCEPT ![th] = @ - 1]
               /\ worker' = [worker EXCEPT ![t] = th]
          /\ coro' = [coro EXCEPT ![t] = TRUE]
          /\ cancelledBeforeStart' = [cancelledBeforeStart EXCEPT ![t] =
               IF coro[t] THEN @ ELSE cancellation_reason[t] # "kNone"]
          /\ new_sleep_state' = [new_sleep_state EXCEPT ![t] =
               sleep_state[t] \ (IF coro[t] THEN {} ELSE {"kWakeupByBootstrap"})]
          /\ pc' = [pc EXCEPT ![t] = "ds_store"]
  /\ UNCHANGED <<state, sleep_state, wakeup_source, cancellation_reason, is_cancellable, is_critical, eh_globals, queueVars, payload, task_pipe, yield_reason, wait_manager, old_sleep_state, cas_old, waiting, timer, wk, cancel_count, wu_result, schedCalls, wakerScheds, payloadCalls, wakeAllCalls, deadline_passed>>

\* The worker dequeues the context; DoStep returns if IsFinished(), else
\* attaches a frame if there is none and loads sleep_state_ into
\* new_sleep_state, clearing clear_flags in the copy.
DoStepBegin(t) ==
  /\ pc[t] = "idle"
  /\ ready[t] > 0
  /\ ready' = [ready EXCEPT ![t] = @ - 1]
  /\ IF IsFinishedState(state[t])
     THEN UNCHANGED <<pc, coro, new_sleep_state, cancelledBeforeStart, worker, idle_workers>>
     ELSE /\ \E th \in ThreadLocals :
               /\ idle_workers[th] > 0
               /\ idle_workers' = [idle_workers EXCEPT ![th] = @ - 1]
               /\ worker' = [worker EXCEPT ![t] = th]
          /\ coro' = [coro EXCEPT ![t] = TRUE]
          /\ cancelledBeforeStart' = [cancelledBeforeStart EXCEPT ![t] =
               IF coro[t] THEN @ ELSE cancellation_reason[t] # "kNone"]
          /\ new_sleep_state' = [new_sleep_state EXCEPT ![t] =
               sleep_state[t] \ ({"kSleeping"} \cup (IF coro[t] THEN {} ELSE {"kWakeupByBootstrap"}))]
          /\ pc' = [pc EXCEPT ![t] = "ds_store"]
  /\ UNCHANGED <<state, sleep_state, wakeup_source, cancellation_reason, is_cancellable, is_critical, eh_globals, queueVars, payload, task_pipe, yield_reason, wait_manager, old_sleep_state, cas_old, waiting, timer, wk, cancel_count, wu_result, schedCalls, wakerScheds, payloadCalls, wakeAllCalls, deadline_passed>>

\* DoStep with an atomic fetch_and() in place of its load and store.
DoStepFetchAnd(t) ==
  /\ pc[t] = "ds_store"
  /\ sleep_state' = [sleep_state EXCEPT ![t] = new_sleep_state[t] \cup (@ \ {"kSleeping", "kWakeupByBootstrap"})]
  /\ state' = [state EXCEPT ![t] = "kRunning"]
  /\ pc' = [pc EXCEPT ![t] = IF task_pipe[t] THEN "sl_resume" ELSE "co_entry"]
  /\ new_sleep_state' = [new_sleep_state EXCEPT ![t] = {}]
  /\ UNCHANGED <<cancellation_reason, ready, waiting, timer, wk, cancel_count, schedCalls, wakerScheds, wakeup_source, is_cancellable, is_critical, coro, payload, task_pipe, yield_reason, wait_manager, idle_workers, queueVars, old_sleep_state, cas_old, wu_result, histVars>>
  /\ worker' = [worker EXCEPT ![t] = [current_task_context_ptr |-> t, eh |-> eh_globals[t]]]
  /\ eh_globals' = [eh_globals EXCEPT ![t] = worker[t].eh]

\* DoStep: sleep_state_.Store(new_sleep_state); SetState(kRunning); (*coro_)(this).
DoStepStore(t) ==
  /\ pc[t] = "ds_store"
  /\ sleep_state' = [sleep_state EXCEPT ![t] = new_sleep_state[t]]
  /\ state' = [state EXCEPT ![t] = "kRunning"]
  /\ pc' = [pc EXCEPT ![t] = IF task_pipe[t] THEN "sl_resume" ELSE "co_entry"]
  /\ new_sleep_state' = [new_sleep_state EXCEPT ![t] = {}]
  /\ UNCHANGED <<cancellation_reason, ready, waiting, timer, wk, cancel_count, schedCalls, wakerScheds, wakeup_source, is_cancellable, is_critical, coro, payload, task_pipe, yield_reason, wait_manager, idle_workers, queueVars, old_sleep_state, cas_old, wu_result, histVars>>
  /\ worker' = [worker EXCEPT ![t] = [current_task_context_ptr |-> t, eh |-> eh_globals[t]]]
  /\ eh_globals' = [eh_globals EXCEPT ![t] = worker[t].eh]

\* The bypass test without the exemption of critical tasks.
BypassPayloadOfCritical(t) == cancellation_reason[t] # "kNone"

\* The bypass test with the exemption inverted.
BypassPayloadOnlyOfCritical(t) == cancellation_reason[t] # "kNone" /\ is_critical[t]

\* CoroFunc: context->IsCancelRequested() && !context->WasStartedAsCritical().
BypassPayload(t) == cancellation_reason[t] # "kNone" /\ ~is_critical[t]

\* The trampoline with a payload that is called without being moved from.
CoroFuncCallsAgain(t) ==
  /\ pc[t] = "co_entry"
  /\ IF BypassPayload(t)
     THEN /\ is_cancellable' = [is_cancellable EXCEPT ![t] = FALSE]
          /\ payload' = [payload EXCEPT ![t] = "destroyed"]
          /\ yield_reason' = [yield_reason EXCEPT ![t] = "kTaskCancelled"]
          /\ pc' = [pc EXCEPT ![t] = "ds_switch"]
          /\ UNCHANGED <<task_pipe, payloadCalls>>
     ELSE /\ payload[t] # "destroyed"
          /\ payload' = [payload EXCEPT ![t] = "moved"]
          /\ payloadCalls' = [payloadCalls EXCEPT ![t] = IF @ < 2 THEN @ + 1 ELSE @]
          /\ yield_reason' = [yield_reason EXCEPT ![t] = "kNone"]
          /\ task_pipe' = [task_pipe EXCEPT ![t] = TRUE]
          /\ pc' = [pc EXCEPT ![t] = "co_body"]
          /\ UNCHANGED is_cancellable
  /\ UNCHANGED <<state, sleep_state, wakeup_source, cancellation_reason, is_critical, scopeVars, queueVars, coro, wait_manager, new_sleep_state, old_sleep_state, cas_old, ready, waiting, timer, wk, cancel_count, wu_result, schedCalls, wakerScheds, wakeAllCalls, cancelledBeforeStart, deadline_passed>>

\* CoroFunc: the trampoline, entered by a new frame.
CoroFunc(t) ==
  /\ pc[t] = "co_entry"
  /\ IF BypassPayload(t)
     THEN /\ is_cancellable' = [is_cancellable EXCEPT ![t] = FALSE]
          /\ payload' = [payload EXCEPT ![t] = "destroyed"]
          /\ yield_reason' = [yield_reason EXCEPT ![t] = "kTaskCancelled"]
          /\ pc' = [pc EXCEPT ![t] = "ds_switch"]
          /\ UNCHANGED <<task_pipe, payloadCalls>>
     ELSE IF payload[t] = "set"
     THEN /\ payload' = [payload EXCEPT ![t] = "moved"]
          /\ payloadCalls' = [payloadCalls EXCEPT ![t] = @ + 1]
          /\ yield_reason' = [yield_reason EXCEPT ![t] = "kNone"]
          /\ task_pipe' = [task_pipe EXCEPT ![t] = TRUE]
          /\ pc' = [pc EXCEPT ![t] = "co_body"]
          /\ UNCHANGED is_cancellable
     ELSE /\ yield_reason' = [yield_reason EXCEPT ![t] = "kTaskComplete"]
          /\ pc' = [pc EXCEPT ![t] = "ds_switch"]
          /\ UNCHANGED <<is_cancellable, payload, task_pipe, payloadCalls>>
  /\ UNCHANGED <<state, sleep_state, wakeup_source, cancellation_reason, is_critical, scopeVars, queueVars, coro, wait_manager, new_sleep_state, old_sleep_state, cas_old, ready, waiting, timer, wk, cancel_count, wu_result, schedCalls, wakerScheds, wakeAllCalls, cancelledBeforeStart, deadline_passed>>

\* The payload calls current_task::SetCancellable(value).
SetCancellable(t, value) ==
  /\ pc[t] = "co_body"
  /\ value # is_cancellable[t]
  /\ is_cancellable' = [is_cancellable EXCEPT ![t] = value]
  /\ UNCHANGED <<state, sleep_state, wakeup_source, cancellation_reason, is_critical, scopeVars, queueVars, coro, payload, task_pipe, yield_reason, wait_manager, stepVars, ready, waiting, timer, wk, cancel_count, schedCalls, wakerScheds, histVars>>

\* Sleep that arms no timer and calls no Wakeup when its deadline has passed.
SleepYieldIgnoresPassedDeadline(t, manager, deadline) ==
  /\ wait_manager' = [wait_manager EXCEPT ![t] = manager]
  /\ timer' = [timer EXCEPT ![t] = IF deadline = "ahead" THEN "armed" ELSE @]
  /\ UNCHANGED <<sleep_state, state, ready, schedCalls, wakerScheds>>
  /\ yield_reason' = [yield_reason EXCEPT ![t] = "kTaskWaiting"]
  /\ pc' = [pc EXCEPT ![t] = "ds_after"]
  /\ deadline_passed' = [deadline_passed EXCEPT ![t] = (deadline = "passed")]

\* Sleep, up to the yield: the deadline timer is armed if the deadline is
\* reachable and ahead, Wakeup(kDeadlineTimer) is called inline if it has
\* passed; yield_reason_ = kTaskWaiting and the coroutine yields to DoStep.
SleepYield(t, manager, deadline) ==
  /\ wait_manager' = [wait_manager EXCEPT ![t] = manager]
  /\ timer' = [timer EXCEPT ![t] = IF deadline = "ahead" THEN "armed" ELSE @]
  /\ IF deadline = "passed"
     THEN /\ sleep_state' = [sleep_state EXCEPT ![t] = @ \cup {"kWakeupByDeadlineTimer"}]
          /\ IF ShouldSchedule(sleep_state[t], "kDeadlineTimer")
             THEN Schedule(t) /\ wakerScheds' = [wakerScheds EXCEPT ![t] = @ + 1]
             ELSE UNCHANGED <<state, ready, schedCalls, wakerScheds>>
     ELSE UNCHANGED <<sleep_state, state, ready, schedCalls, wakerScheds>>
  /\ yield_reason' = [yield_reason EXCEPT ![t] = "kTaskWaiting"]
  /\ pc' = [pc EXCEPT ![t] = "ds_after"]
  /\ deadline_passed' = [deadline_passed EXCEPT ![t] = (deadline = "passed")]

\* The payload of T sleeps on a wait list, with any deadline.
Sleep(t, deadline) ==
  /\ pc[t] = "co_body"
  /\ SleepYield(t, "manual", deadline)
  /\ UNCHANGED <<wakeup_source, cancellation_reason, is_cancellable, is_critical, scopeVars, queueVars, coro, payload, task_pipe, new_sleep_state, old_sleep_state, cas_old, waiting, wk, cancel_count, wu_result, payloadCalls, wakeAllCalls, cancelledBeforeStart>>

\* The payload returns: yield_reason_ = kTaskComplete.
PayloadReturn(t) ==
  /\ \/ pc[t] = "co_body" /\ t = "T"
     \/ pc[t] = "wu_done"
  /\ yield_reason' = [yield_reason EXCEPT ![t] = "kTaskComplete"]
  /\ task_pipe' = [task_pipe EXCEPT ![t] = FALSE]
  /\ pc' = [pc EXCEPT ![t] = "ds_switch"]
  /\ UNCHANGED <<state, sleep_state, wakeup_source, cancellation_reason, is_cancellable, is_critical, scopeVars, queueVars, coro, payload, wait_manager, new_sleep_state, old_sleep_state, cas_old, ready, waiting, timer, wk, cancel_count, wu_result, schedCalls, wakerScheds, histVars>>

\* The payload is unwound by CoroUnwinder: yield_reason_ = kTaskCancelled.
PayloadUnwind(t) ==
  /\ pc[t] = "co_body"
  /\ t = "T"
  /\ yield_reason' = [yield_reason EXCEPT ![t] = "kTaskCancelled"]
  /\ task_pipe' = [task_pipe EXCEPT ![t] = FALSE]
  /\ pc' = [pc EXCEPT ![t] = "ds_switch"]
  /\ UNCHANGED <<state, sleep_state, wakeup_source, cancellation_reason, is_cancellable, is_critical, scopeVars, queueVars, coro, payload, wait_manager, new_sleep_state, old_sleep_state, cas_old, ready, waiting, timer, wk, cancel_count, wu_result, schedCalls, wakerScheds, histVars>>

\* DoStep that keeps the scope open when the step throws.
DoStepRethrowInScope(t) ==
  /\ pc[t] = "co_body"
  /\ t = "T"
  /\ pc' = [pc EXCEPT ![t] = "thrown"]
  /\ idle_workers' = [idle_workers EXCEPT ![worker[t]] = @ + 1]
  /\ worker' = [worker EXCEPT ![t] = NoThread]
  /\ UNCHANGED <<state, sleep_state, wakeup_source, cancellation_reason, is_cancellable, is_critical, eh_globals, queueVars, coro, payload, task_pipe, yield_reason, wait_manager, new_sleep_state, old_sleep_state, cas_old, ready, waiting, timer, wk, cancel_count, wu_result, schedCalls, wakerScheds, histVars>>

\* An exception other than CoroUnwinder leaves the payload and CoroFunc; DoStep
\* catches it, closes its CurrentTaskScope and rethrows it to the worker.
DoStepRethrow(t) ==
  /\ pc[t] = "co_body"
  /\ t = "T"
  /\ pc' = [pc EXCEPT ![t] = "thrown"]
  /\ eh_globals' = [eh_globals EXCEPT ![t] = worker[t].eh]
  /\ idle_workers' = [idle_workers EXCEPT ![[current_task_context_ptr |-> "nullptr", eh |-> eh_globals[t]]] = @ + 1]
  /\ worker' = [worker EXCEPT ![t] = NoThread]
  /\ UNCHANGED <<state, sleep_state, wakeup_source, cancellation_reason, is_cancellable, is_critical, queueVars, coro, payload, task_pipe, yield_reason, wait_manager, new_sleep_state, old_sleep_state, cas_old, ready, waiting, timer, wk, cancel_count, wu_result, schedCalls, wakerScheds, histVars>>

\* DoStep: wait_manager_->AfterAsleep() of a strategy that appends the task
\* to the wait list of its primitive.
AfterAsleep(t) ==
  /\ pc[t] = "ds_after"
  /\ wait_manager[t] = "manual"
  /\ waiting' = [waiting EXCEPT ![t] = "manual"]
  /\ pc' = [pc EXCEPT ![t] = "ds_switch"]
  /\ UNCHANGED <<state, sleep_state, cancellation_reason, ready, timer, wk, cancel_count, schedCalls, wakerScheds, ctxVars, new_sleep_state, old_sleep_state, cas_old, wu_result, histVars>>

\* DoStep's switch that keeps the frame on a terminal reason.
DoStepSwitchKeepsFrame(t) ==
  /\ pc[t] = "ds_switch"
  /\ IF yield_reason[t] \in {"kTaskCancelled", "kTaskComplete"}
     THEN /\ cas_old' = [cas_old EXCEPT ![t] =
               CasHint(IF yield_reason[t] = "kTaskComplete" THEN "kCompleted" ELSE "kCancelled")]
          /\ pc' = [pc EXCEPT ![t] = "ds_setstate"]
          /\ UNCHANGED state
     ELSE /\ state' = [state EXCEPT ![t] = "kSuspended"]
          /\ pc' = [pc EXCEPT ![t] = "ds_park"]
          /\ UNCHANGED cas_old
  /\ old_sleep_state' = [old_sleep_state EXCEPT ![t] = {}]
  /\ UNCHANGED <<sleep_state, wakeup_source, cancellation_reason, is_cancellable, is_critical, idle_workers, queueVars, coro, payload, task_pipe, yield_reason, wait_manager, new_sleep_state, ready, waiting, timer, wk, cancel_count, wu_result, schedCalls, wakerScheds, histVars>>
  /\ eh_globals' = [eh_globals EXCEPT ![t] = worker[t].eh]
  /\ worker' = [worker EXCEPT ![t] = [current_task_context_ptr |-> "nullptr", eh |-> eh_globals[t]]]

\* DoStep: switch (yield_reason_): a terminal reason returns the frame to the
\* pool and enters SetState(new_state); kTaskWaiting does SetState(kSuspended).
DoStepSwitch(t) ==
  /\ pc[t] = "ds_switch"
  /\ IF yield_reason[t] \in {"kTaskCancelled", "kTaskComplete"}
     THEN /\ coro' = [coro EXCEPT ![t] = FALSE]
          /\ cas_old' = [cas_old EXCEPT ![t] =
               CasHint(IF yield_reason[t] = "kTaskComplete" THEN "kCompleted" ELSE "kCancelled")]
          /\ pc' = [pc EXCEPT ![t] = "ds_setstate"]
          /\ UNCHANGED state
     ELSE /\ state' = [state EXCEPT ![t] = "kSuspended"]
          /\ pc' = [pc EXCEPT ![t] = "ds_park"]
          /\ UNCHANGED <<coro, cas_old>>
  /\ old_sleep_state' = [old_sleep_state EXCEPT ![t] = {}]
  /\ UNCHANGED <<sleep_state, wakeup_source, cancellation_reason, is_cancellable, is_critical, idle_workers, queueVars, payload, task_pipe, yield_reason, wait_manager, new_sleep_state, ready, waiting, timer, wk, cancel_count, wu_result, schedCalls, wakerScheds, histVars>>
  /\ eh_globals' = [eh_globals EXCEPT ![t] = worker[t].eh]
  /\ worker' = [worker EXCEPT ![t] = [current_task_context_ptr |-> "nullptr", eh |-> eh_globals[t]]]

\* SetState that returns after its compare-exchange, waking nobody.
SetStateWithoutWakeupAll(t) ==
  /\ pc[t] = "ds_setstate"
  /\ LET new_state == IF yield_reason[t] = "kTaskComplete" THEN "kCompleted" ELSE "kCancelled"
     IN IF state[t] = cas_old[t]
        THEN /\ state' = [state EXCEPT ![t] = new_state]
             /\ pc' = [pc EXCEPT ![t] = "idle"]
             /\ UNCHANGED cas_old
        ELSE /\ cas_old' = [cas_old EXCEPT ![t] = state[t]]
             /\ pc' = [pc EXCEPT ![t] = IF state[t] = new_state \/ IsFinishedState(state[t]) THEN "idle" ELSE @]
             /\ UNCHANGED state
  /\ UNCHANGED <<sleep_state, cancellation_reason, ready, waiting, timer, wk, cancel_count, schedCalls, wakerScheds, wakeup_source, is_cancellable, is_critical, coro, payload, task_pipe, yield_reason, wait_manager, eh_globals, queueVars, new_sleep_state, old_sleep_state, wu_result, histVars>>
  /\ worker' = [worker EXCEPT ![t] = IF pc'[t] = "idle" THEN NoThread ELSE @]
  /\ idle_workers' = IF pc'[t] = "idle" THEN [idle_workers EXCEPT ![worker[t]] = @ + 1] ELSE idle_workers

\* SetState(kCompleted / kCancelled): one turn of the compare_exchange_strong loop.
SetState(t) ==
  /\ pc[t] = "ds_setstate"
  /\ LET new_state == IF yield_reason[t] = "kTaskComplete" THEN "kCompleted" ELSE "kCancelled"
     IN IF state[t] = cas_old[t]
        THEN /\ state' = [state EXCEPT ![t] = new_state]
             /\ pc' = [pc EXCEPT ![t] = "ds_wakeall"]
             /\ UNCHANGED cas_old
        ELSE /\ cas_old' = [cas_old EXCEPT ![t] = state[t]]
             /\ pc' = [pc EXCEPT ![t] = IF state[t] = new_state \/ IsFinishedState(state[t]) THEN "idle" ELSE @]
             /\ UNCHANGED state
  /\ UNCHANGED <<sleep_state, cancellation_reason, ready, waiting, timer, wk, cancel_count, schedCalls, wakerScheds, wakeup_source, is_cancellable, is_critical, coro, payload, task_pipe, yield_reason, wait_manager, eh_globals, queueVars, new_sleep_state, old_sleep_state, wu_result, histVars>>
  /\ worker' = [worker EXCEPT ![t] = IF pc'[t] = "idle" THEN NoThread ELSE @]
  /\ idle_workers' = IF pc'[t] = "idle" THEN [idle_workers EXCEPT ![worker[t]] = @ + 1] ELSE idle_workers

\* SetState: if (IsFinished()) finish_waiters_->WakeupAll(lock): the list
\* gives up its waiter, on which Wakeup(kWaitList) is then called.
WakeupAll(t) ==
  /\ pc[t] = "ds_wakeall"
  /\ IF IsFinishedState(state[t])
     THEN /\ wakeAllCalls' = [wakeAllCalls EXCEPT ![t] = @ + 1]
          /\ IF t = "T" /\ waiting["W"] = "finish"
             THEN /\ waiting' = [waiting EXCEPT !["W"] = "none"]
                  /\ pc' = [pc EXCEPT ![t] = "wa_fin"]
             ELSE /\ pc' = [pc EXCEPT ![t] = "idle"]
                  /\ UNCHANGED waiting
     ELSE /\ pc' = [pc EXCEPT ![t] = "idle"]
          /\ UNCHANGED <<waiting, wakeAllCalls>>
  /\ UNCHANGED <<state, sleep_state, cancellation_reason, ready, timer, wk, cancel_count, schedCalls, wakerScheds, wakeup_source, is_cancellable, is_critical, coro, payload, task_pipe, yield_reason, wait_manager, eh_globals, queueVars, new_sleep_state, old_sleep_state, cas_old, wu_result, payloadCalls, cancelledBeforeStart, deadline_passed>>
  /\ worker' = [worker EXCEPT ![t] = IF pc'[t] = "idle" THEN NoThread ELSE @]
  /\ idle_workers' = IF pc'[t] = "idle" THEN [idle_workers EXCEPT ![worker[t]] = @ + 1] ELSE idle_workers

\* DoStep that parks the task without looking at the bits its FetchOr found.
DoStepParkWithoutSchedule(t) ==
  /\ pc[t] = "ds_park"
  /\ LET new_flags == {"kSleeping"} \cup (IF is_cancellable[t] THEN {} ELSE {"kNonCancellable"})
         prev == IF "kNonCancellable" \in new_flags
                 THEN sleep_state[t] \ {"kWakeupByCancelRequest", "kNonCancellable"}
                 ELSE sleep_state[t]
     IN /\ sleep_state' = [sleep_state EXCEPT ![t] = @ \cup new_flags]
        /\ pc' = [pc EXCEPT ![t] = IF prev # prev THEN "ds_sched" ELSE "idle"]
  /\ schedCalls' = [schedCalls EXCEPT ![t] = 0]
  /\ wakerScheds' = [wakerScheds EXCEPT ![t] = 0]
  /\ UNCHANGED <<state, cancellation_reason, ready, waiting, timer, wk, cancel_count, wakeup_source, is_cancellable, is_critical, coro, payload, task_pipe, yield_reason, wait_manager, eh_globals, queueVars, new_sleep_state, old_sleep_state, cas_old, wu_result, histVars>>
  /\ worker' = [worker EXCEPT ![t] = IF pc'[t] = "idle" THEN NoThread ELSE @]
  /\ idle_workers' = IF pc'[t] = "idle" THEN [idle_workers EXCEPT ![worker[t]] = @ + 1] ELSE idle_workers

\* DoStep, kTaskWaiting: prev = sleep_state_.FetchOr(new_flags); the task is
\* parked, or is to be scheduled at once if a wakeup bit was already there.
DoStepPark(t) ==
  /\ pc[t] = "ds_park"
  /\ LET new_flags == {"kSleeping"} \cup (IF is_cancellable[t] THEN {} ELSE {"kNonCancellable"})
         prev == IF "kNonCancellable" \in new_flags
                 THEN sleep_state[t] \ {"kWakeupByCancelRequest", "kNonCancellable"}
                 ELSE sleep_state[t]
     IN /\ sleep_state' = [sleep_state EXCEPT ![t] = @ \cup new_flags]
        /\ pc' = [pc EXCEPT ![t] = IF prev # {} THEN "ds_sched" ELSE "idle"]
  /\ schedCalls' = [schedCalls EXCEPT ![t] = 0]
  /\ wakerScheds' = [wakerScheds EXCEPT ![t] = 0]
  /\ UNCHANGED <<state, cancellation_reason, ready, waiting, timer, wk, cancel_count, wakeup_source, is_cancellable, is_critical, coro, payload, task_pipe, yield_reason, wait_manager, eh_globals, queueVars, new_sleep_state, old_sleep_state, cas_old, wu_result, histVars>>
  /\ worker' = [worker EXCEPT ![t] = IF pc'[t] = "idle" THEN NoThread ELSE @]
  /\ idle_workers' = IF pc'[t] = "idle" THEN [idle_workers EXCEPT ![worker[t]] = @ + 1] ELSE idle_workers

\* DoStep, kTaskWaiting: Schedule(), the task having been woken while parking.
DoStepSchedule(t) ==
  /\ pc[t] = "ds_sched"
  /\ Schedule(t)
  /\ pc' = [pc EXCEPT ![t] = "idle"]
  /\ UNCHANGED <<sleep_state, cancellation_reason, waiting, timer, wk, cancel_count, wakerScheds, wakeup_source, is_cancellable, is_critical, coro, payload, task_pipe, yield_reason, wait_manager, eh_globals, queueVars, new_sleep_state, old_sleep_state, cas_old, wu_result, histVars>>
  /\ worker' = [worker EXCEPT ![t] = IF pc'[t] = "idle" THEN NoThread ELSE @]
  /\ idle_workers' = IF pc'[t] = "idle" THEN [idle_workers EXCEPT ![worker[t]] = @ + 1] ELSE idle_workers

(***************************************************************************)
(* Sleep, from the resumption of the coroutine on.                         *)
(***************************************************************************)

\* Sleep: deadline_timer.Stop(), which returns once the timer's callback is
\* not running; then the test of kWakeupByWaitList in sleep_state_.
SleepResume(t) ==
  /\ pc[t] = "sl_resume"
  /\ wk[t]["timer"] = "idle"
  /\ timer' = [timer EXCEPT ![t] = "none"]
  /\ pc' = [pc EXCEPT ![t] = IF "kWakeupByWaitList" \in sleep_state[t] THEN "sl_load" ELSE "sl_remove"]
  /\ UNCHANGED <<state, sleep_state, cancellation_reason, ready, waiting, wk, cancel_count, schedCalls, wakerScheds, ctxVars, new_sleep_state, old_sleep_state, cas_old, wu_result, histVars>>

\* Sleep: wait_list->Remove(this).
SleepRemove(t) ==
  /\ pc[t] = "sl_remove"
  /\ waiting' = [waiting EXCEPT ![t] = "none"]
  /\ pc' = [pc EXCEPT ![t] = "sl_load"]
  /\ UNCHANGED <<state, sleep_state, cancellation_reason, ready, timer, wk, cancel_count, schedCalls, wakerScheds, ctxVars, new_sleep_state, old_sleep_state, cas_old, wu_result, histVars>>

\* Sleep: old_sleep_state = sleep_state_.Load().
SleepLoad(t) ==
  /\ pc[t] = "sl_load"
  /\ old_sleep_state' = [old_sleep_state EXCEPT ![t] = sleep_state[t]]
  /\ pc' = [pc EXCEPT ![t] = "sl_store"]
  /\ UNCHANGED <<state, sleep_state, cancellation_reason, ready, waiting, timer, wk, cancel_count, schedCalls, wakerScheds, ctxVars, new_sleep_state, cas_old, wu_result, histVars>>

\* Sleep: sleep_state_.Store(kNone); wakeup_source_ =
\* GetPrimaryWakeupSource(old_sleep_state), which may throw; BeforeAwake() (a
\* no-op of the strategies here); wait_manager_ = old_wait_manager; the
\* second Store(kNone).  Sleep returns into the payload.
SleepStore(t) ==
  /\ pc[t] = "sl_store"
  /\ sleep_state' = [sleep_state EXCEPT ![t] = {}]
  /\ LET source == GetPrimaryWakeupSource(old_sleep_state[t])
     IN IF source = "logic_error"
        THEN /\ pc' = [pc EXCEPT ![t] = "crashed"]
             /\ UNCHANGED <<wakeup_source, wait_manager>>
             /\ eh_globals' = [eh_globals EXCEPT ![t] = worker[t].eh]
             /\ idle_workers' = [idle_workers EXCEPT ![[current_task_context_ptr |-> "nullptr", eh |-> eh_globals[t]]] = @ + 1]
             /\ worker' = [worker EXCEPT ![t] = NoThread]
        ELSE /\ wakeup_source' = [wakeup_source EXCEPT ![t] = source]
             /\ wait_manager' = [wait_manager EXCEPT ![t] = "null"]
             /\ pc' = [pc EXCEPT ![t] = IF t = "W" THEN "wu_after" ELSE "co_body"]
             /\ UNCHANGED scopeVars
  /\ UNCHANGED <<state, cancellation_reason, is_cancellable, is_critical, queueVars, coro, payload, task_pipe, yield_reason, new_sleep_state, old_sleep_state, cas_old, ready, waiting, timer, wk, cancel_count, wu_result, schedCalls, wakerScheds, payloadCalls, wakeAllCalls, cancelledBeforeStart>>
  /\ deadline_passed' = [deadline_passed EXCEPT ![t] = FALSE]

(***************************************************************************)
(* WaitUntil: the payload of W waits for T to finish.                      *)
(***************************************************************************)

\* TaskContext::ShouldCancel() of task t.
ShouldCancel(t) == cancellation_reason[t] # "kNone" /\ is_cancellable[t]

\* WaitUntil: if (IsFinished()) return;
WaitUntil(t) ==
  /\ pc[t] = "co_body"
  /\ t = "W"
  /\ IF IsFinishedState(state["T"])
     THEN /\ wu_result' = [wu_result EXCEPT ![t] = "returned"]
          /\ pc' = [pc EXCEPT ![t] = "wu_done"]
     ELSE /\ pc' = [pc EXCEPT ![t] = "wu_cancel"]
          /\ UNCHANGED wu_result
  /\ UNCHANGED <<state, sleep_state, cancellation_reason, ready, waiting, timer, wk, cancel_count, schedCalls, wakerScheds, ctxVars, new_sleep_state, old_sleep_state, cas_old, histVars>>

\* WaitUntil that throws on IsCancelRequested() in place of ShouldCancel().
WaitUntilInterruptedIfRequested(t) ==
  /\ pc[t] = "wu_cancel"
  /\ cancellation_reason[t] # "kNone"
  /\ wu_result' = [wu_result EXCEPT ![t] = "interrupted"]
  /\ pc' = [pc EXCEPT ![t] = "wu_done"]
  /\ UNCHANGED <<state, sleep_state, cancellation_reason, ready, waiting, timer, wk, cancel_count, schedCalls, wakerScheds, ctxVars, new_sleep_state, old_sleep_state, cas_old, histVars>>

\* WaitUntil: throw WaitInterruptedException if current->ShouldCancel().
WaitUntilInterrupted(t) ==
  /\ pc[t] = "wu_cancel"
  /\ ShouldCancel(t)
  /\ wu_result' = [wu_result EXCEPT ![t] = "interrupted"]
  /\ pc' = [pc EXCEPT ![t] = "wu_done"]
  /\ UNCHANGED <<state, sleep_state, cancellation_reason, ready, waiting, timer, wk, cancel_count, schedCalls, wakerScheds, ctxVars, new_sleep_state, old_sleep_state, cas_old, histVars>>

\* WaitUntil: current->Sleep(&wait_manager) with a LockedWaitStrategy.
WaitUntilSleep(t, deadline) ==
  /\ pc[t] = "wu_cancel"
  /\ ~ShouldCancel(t)
  /\ SleepYield(t, "finish", deadline)
  /\ UNCHANGED <<wakeup_source, cancellation_reason, is_cancellable, is_critical, scopeVars, queueVars, coro, payload, task_pipe, new_sleep_state, old_sleep_state, cas_old, waiting, wk, cancel_count, wu_result, payloadCalls, wakeAllCalls, cancelledBeforeStart>>

\* LockedWaitStrategy::AfterAsleep: waiters_.Append(lock_, &current_).
LockedAfterAsleep(t) ==
  /\ pc[t] = "ds_after"
  /\ wait_manager[t] = "finish"
  /\ waiting' = [waiting EXCEPT ![t] = "finish"]
  /\ pc' = [pc EXCEPT ![t] = "fa_check"]
  /\ UNCHANGED <<state, sleep_state, cancellation_reason, ready, timer, wk, cancel_count, schedCalls, wakerScheds, ctxVars, new_sleep_state, old_sleep_state, cas_old, wu_result, histVars>>

\* AfterAsleep without its test of the target: it appends and returns.
TargetNeverFinished(t) ==
  /\ pc[t] = "fa_check"
  /\ pc' = [pc EXCEPT ![t] = "ds_switch"]
  /\ UNCHANGED <<state, sleep_state, cancellation_reason, ready, waiting, timer, wk, cancel_count, schedCalls, wakerScheds, ctxVars, new_sleep_state, old_sleep_state, cas_old, wu_result, histVars>>

\* LockedWaitStrategy::AfterAsleep: if (target_.IsFinished()) ...
TargetIsFinished(t) ==
  /\ pc[t] = "fa_check"
  /\ pc' = [pc EXCEPT ![t] = IF IsFinishedState(state["T"]) THEN "fa_wake" ELSE "ds_switch"]
  /\ UNCHANGED <<state, sleep_state, cancellation_reason, ready, waiting, timer, wk, cancel_count, schedCalls, wakerScheds, ctxVars, new_sleep_state, old_sleep_state, cas_old, wu_result, histVars>>

\* LockedWaitStrategy::AfterAsleep: waiters_.WakeupOne(lock_): the list gives
\* up its waiter, if it still holds it.
SelfWakeupOne(t) ==
  /\ pc[t] = "fa_wake"
  /\ IF waiting[t] = "finish"
     THEN /\ waiting' = [waiting EXCEPT ![t] = "none"]
          /\ pc' = [pc EXCEPT ![t] = "fa_or"]
     ELSE /\ pc' = [pc EXCEPT ![t] = "ds_switch"]
          /\ UNCHANGED waiting
  /\ UNCHANGED <<state, sleep_state, cancellation_reason, ready, timer, wk, cancel_count, schedCalls, wakerScheds, ctxVars, new_sleep_state, old_sleep_state, cas_old, wu_result, histVars>>

\* Wakeup(kWaitList) of the current task by its own AfterAsleep (the task is
\* kRunning, so not finished).
SelfWakeup(t) ==
  /\ pc[t] = "fa_or"
  /\ sleep_state' = [sleep_state EXCEPT ![t] = @ \cup {"kWakeupByWaitList"}]
  /\ IF ShouldSchedule(sleep_state[t], "kWaitList")
     THEN Schedule(t) /\ wakerScheds' = [wakerScheds EXCEPT ![t] = @ + 1]
     ELSE UNCHANGED <<state, ready, schedCalls, wakerScheds>>
  /\ pc' = [pc EXCEPT ![t] = "ds_switch"]
  /\ UNCHANGED <<cancellation_reason, waiting, timer, wk, cancel_count, ctxVars, new_sleep_state, old_sleep_state, cas_old, wu_result, histVars>>

\* Wakeup(kWaitList) of the waiter by the finishing task's WakeupAll:
\* if (IsFinished()) return;
WakeupAllIsFinished(t) ==
  /\ pc[t] = "wa_fin"
  /\ pc' = [pc EXCEPT ![t] = IF IsFinishedState(state["W"]) THEN "idle" ELSE "wa_or"]
  /\ UNCHANGED <<state, sleep_state, cancellation_reason, ready, waiting, timer, wk, cancel_count, schedCalls, wakerScheds, wakeup_source, is_cancellable, is_critical, coro, payload, task_pipe, yield_reason, wait_manager, eh_globals, queueVars, new_sleep_state, old_sleep_state, cas_old, wu_result, histVars>>
  /\ worker' = [worker EXCEPT ![t] = IF pc'[t] = "idle" THEN NoThread ELSE @]
  /\ idle_workers' = IF pc'[t] = "idle" THEN [idle_workers EXCEPT ![worker[t]] = @ + 1] ELSE idle_workers

\* ... prev = sleep_state_.FetchOr(kWakeupByWaitList); ShouldSchedule(prev).
WakeupAllFetchOr(t) ==
  /\ pc[t] = "wa_or"
  /\ sleep_state' = [sleep_state EXCEPT !["W"] = @ \cup {"kWakeupByWaitList"}]
  /\ pc' = [pc EXCEPT ![t] = IF ShouldSchedule(sleep_state["W"], "kWaitList") THEN "wa_sched" ELSE "idle"]
  /\ UNCHANGED <<state, cancellation_reason, ready, waiting, timer, wk, cancel_count, schedCalls, wakerScheds, wakeup_source, is_cancellable, is_critical, coro, payload, task_pipe, yield_reason, wait_manager, eh_globals, queueVars, new_sleep_state, old_sleep_state, cas_old, wu_result, histVars>>
  /\ worker' = [worker EXCEPT ![t] = IF pc'[t] = "idle" THEN NoThread ELSE @]
  /\ idle_workers' = IF pc'[t] = "idle" THEN [idle_workers EXCEPT ![worker[t]] = @ + 1] ELSE idle_workers

\* ... Schedule() of the waiter.
WakeupAllSchedule(t) ==
  /\ pc[t] = "wa_sched"
  /\ Schedule("W")
  /\ wakerScheds' = [wakerScheds EXCEPT !["W"] = @ + 1]
  /\ pc' = [pc EXCEPT ![t] = "idle"]
  /\ UNCHANGED <<sleep_state, cancellation_reason, waiting, timer, wk, cancel_count, wakeup_source, is_cancellable, is_critical, coro, payload, task_pipe, yield_reason, wait_manager, eh_globals, queueVars, new_sleep_state, old_sleep_state, cas_old, wu_result, histVars>>
  /\ worker' = [worker EXCEPT ![t] = IF pc'[t] = "idle" THEN NoThread ELSE @]
  /\ idle_workers' = IF pc'[t] = "idle" THEN [idle_workers EXCEPT ![worker[t]] = @ + 1] ELSE idle_workers

\* WaitUntil, after Sleep: if (!IsFinished() && ...
WaitUntilAfter(t) ==
  /\ pc[t] = "wu_after"
  /\ IF IsFinishedState(state["T"])
     THEN /\ wu_result' = [wu_result EXCEPT ![t] = "returned"]
          /\ pc' = [pc EXCEPT ![t] = "wu_done"]
     ELSE /\ pc' = [pc EXCEPT ![t] = "wu_after_cancel"]
          /\ UNCHANGED wu_result
  /\ UNCHANGED <<state, sleep_state, cancellation_reason, ready, waiting, timer, wk, cancel_count, schedCalls, wakerScheds, ctxVars, new_sleep_state, old_sleep_state, cas_old, histVars>>

\* ... current->ShouldCancel()) throw WaitInterruptedException.
WaitUntilAfterCancel(t) ==
  /\ pc[t] = "wu_after_cancel"
  /\ wu_result' = [wu_result EXCEPT ![t] = IF ShouldCancel(t) THEN "interrupted" ELSE "returned"]
  /\ pc' = [pc EXCEPT ![t] = "wu_done"]
  /\ UNCHANGED <<state, sleep_state, cancellation_reason, ready, waiting, timer, wk, cancel_count, schedCalls, wakerScheds, ctxVars, new_sleep_state, old_sleep_state, cas_old, histVars>>

(***************************************************************************)
(* The specifications.                                                     *)
(***************************************************************************)

Deadlines == {"unreachable", "ahead", "passed"}

\* What happens to every context: the calls on it from outside and DoStep.
ContextNext(t) ==
  \/ Bootstrap(t)
  \/ TimerFires(t)
  \/ \E k \in Wakers : WakeupIsFinished(t, k)
  \/ \E k \in Wakers : WakeupNonCancellable(t, k)
  \/ \E k \in Wakers : WakeupFetchOr(t, k)
  \/ \E k \in Wakers : WakeupSchedule(t, k)
  \/ DoStepBegin(t)
  \/ DoStepStore(t)
  \/ CoroFunc(t)
  \/ \E value \in BOOLEAN : SetCancellable(t, value)
  \/ PayloadReturn(t)
  \/ PayloadUnwind(t)
  \/ DoStepRethrow(t)
  \/ DoStepSwitch(t)
  \/ SetState(t)
  \/ WakeupAll(t)
  \/ DoStepPark(t)
  \/ DoStepSchedule(t)
  \/ SleepResume(t)
  \/ SleepRemove(t)
  \/ SleepLoad(t)
  \/ SleepStore(t)

\* The payload of T.
SleeperNext(t) ==
  \/ \E deadline \in Deadlines : Sleep(t, deadline)
  \/ AfterAsleep(t)
  \/ WakeupOne(t)

\* The payload of W and the wakeup of W by T.
WaiterNext(t) ==
  \/ WaitUntil(t)
  \/ WaitUntilInterrupted(t)
  \/ \E deadline \in {"unreachable", "ahead"} : WaitUntilSleep(t, deadline)
  \/ LockedAfterAsleep(t)
  \/ TargetIsFinished(t)
  \/ SelfWakeupOne(t)
  \/ SelfWakeup(t)
  \/ WakeupAllIsFinished("T")
  \/ WakeupAllFetchOr("T")
  \/ WakeupAllSchedule("T")
  \/ WaitUntilAfter(t)
  \/ WaitUntilAfterCancel(t)

\* RequestCancel by the callers cs.
CancelNext(t, cs) ==
  \/ \E c \in cs : RequestCancel(t, c)
  \/ \E c \in cs : AccountTaskCancel(t, c)

\* One task, driven as the runtime drives it: any number of sleeps, wakeups
\* from its wait list and its deadline timer, two callers of RequestCancel.
Next == ContextNext("T") \/ SleeperNext("T") \/ CancelNext("T", Cancellers)

Spec == Init /\ [][Next]_vars

\* The same, with cancel requests that may also arrive before the owner's
\* bootstrap wakeup has returned.
NextRace == Next \/ \E c \in Cancellers : EarlyRequestCancel("T", c)

SpecRace == Init /\ [][NextRace]_vars

\* Two tasks: W waits for T, whose payload runs to its end without sleeping;
\* each may be cancelled by one caller.
NextWait ==
  \/ ContextNext("T") \/ CancelNext("T", {"c1"})
  \/ ContextNext("W") \/ CancelNext("W", {"c1"}) \/ WaiterNext("W")

SpecWait == Init /\ [][NextWait]_vars

\* The steps of code that is running: a Wakeup call past its entry, a worker
\* thread's DoStep and the coroutine's way through Sleep and WaitUntil. They
\* leave out what a caller or a payload may never do: a new RequestCancel, the
\* owner's bootstrap, the deadline, SetCancellable, the end of a payload.
Running(t) ==
  \/ \E k \in Wakers : WakeupIsFinished(t, k) \/ WakeupNonCancellable(t, k) \/ WakeupFetchOr(t, k) \/ WakeupSchedule(t, k)
  \/ DoStepBegin(t) \/ DoStepStore(t) \/ CoroFunc(t)
  \/ DoStepSwitch(t) \/ SetState(t) \/ WakeupAll(t) \/ DoStepPark(t) \/ DoStepSchedule(t)
  \/ SleepResume(t) \/ SleepRemove(t) \/ SleepLoad(t) \/ SleepStore(t)

RunningWaiter(t) ==
  \/ WaitUntilInterrupted(t)
  \/ \E deadline \in {"unreachable", "ahead"} : WaitUntilSleep(t, deadline)
  \/ LockedAfterAsleep(t) \/ TargetIsFinished(t) \/ SelfWakeupOne(t) \/ SelfWakeup(t)
  \/ WakeupAllIsFinished("T") \/ WakeupAllFetchOr("T") \/ WakeupAllSchedule("T")
  \/ WaitUntilAfter(t) \/ WaitUntilAfterCancel(t)

\* W waits for T and may be cancelled meanwhile; T's payload returns or is
\* unwound.
NextFinish ==
  ContextNext("T") \/ ContextNext("W") \/ CancelNext("W", {"c1"}) \/ WaiterNext("W")

\* ... on a task processor whose threads keep running.
SpecFinish ==
  Init /\ [][NextFinish]_vars /\ WF_vars(Running("T")) /\ WF_vars(Running("W")) /\ WF_vars(RunningWaiter("W"))

(***************************************************************************)
(* The properties.                                                         *)
(***************************************************************************)

WakeupBits == {"kWakeupByWaitList", "kWakeupByDeadlineTimer", "kWakeupByCancelRequest", "kWakeupByBootstrap"}

\* Schedule() calls made or committed to since the task last parked: those
\* done, the Wakeup() calls about to make theirs, and DoStep about to make its.
ScheduleCount(t) ==
  schedCalls[t] + Cardinality({k \in Wakers : wk[t][k] = "sched"}) + (IF pc[t] = "ds_sched" THEN 1 ELSE 0)

\* The task was parked by DoStep inside a Sleep and no DoStep has resumed it.
Parked(t) == task_pipe[t] /\ "kSleeping" \in sleep_state[t]

\* A wakeup bit that may resume the task is in sleep_state_.
EligibleBit(t) ==
  \/ sleep_state[t] \cap {"kWakeupByWaitList", "kWakeupByDeadlineTimer", "kWakeupByBootstrap"} # {}
  \/ "kWakeupByCancelRequest" \in sleep_state[t] /\ "kNonCancellable" \notin sleep_state[t]

\* C1: for one suspension of a task and any concurrent Wakeup calls with
\* sources kWaitList, kDeadlineTimer, kCancelRequest and kBootstrap, exactly one
\* Schedule() is made: never two, and one as soon as an eligible wakeup bit is set.
C1_ExactlyOneSchedule ==
  Parked("T") => /\ ScheduleCount("T") <= 1
                 /\ EligibleBit("T") => ScheduleCount("T") = 1

\* The sources of a snapshot that may be reported, and the claim's order of them.
EligibleSources(flags) ==
  {src \in WakeupSource : FlagOf(src) \in flags /\ (src = "kCancelRequest" => "kNonCancellable" \notin flags)}

Rank(src) ==
  CASE src = "kWaitList" -> 1
    [] src = "kDeadlineTimer" -> 2
    [] src = "kBootstrap" -> 3
    [] src = "kCancelRequest" -> 4

HighestPriority(flags) ==
  CHOOSE src \in EligibleSources(flags) : \A other \in EligibleSources(flags) : Rank(src) <= Rank(other)

\* Sleep has returned into the payload with the snapshot old_sleep_state.
Resumed(t) == old_sleep_state[t] # {} /\ pc[t] \notin {"sl_store", "crashed"}

\* C2: after every resumption from Sleep the wakeup source is the source of
\* highest priority (kWaitList > kDeadlineTimer > kBootstrap > kCancelRequest,
\* the last only without kNonCancellable) in the snapshot of sleep_state_.
C2_WakeupSourceIsHighestPriority ==
  \A t \in Tasks : Resumed(t) => wakeup_source[t] = HighestPriority(old_sleep_state[t])

\* A resumption whose snapshot held the wait list's and the timer's bit.
C2_Witness ==
  /\ Resumed("T")
  /\ {"kWakeupByWaitList", "kWakeupByDeadlineTimer"} \subseteq old_sleep_state["T"]
  /\ wakeup_source["T"] = "kWaitList"

\* The task is parked in a non-cancellable region.
NonCancellableParked(t) == Parked(t) /\ "kNonCancellable" \in sleep_state[t]

\* Some RequestCancel call has made its compare-exchange.
CancelRequested(t) == \E c \in Cancellers : wk[t][c] # "idle"

Entered(t) == task_pipe[t] \/ yield_reason[t] # "kNone"

\* C4: a critical task has its payload invoked on its first step, also when it
\* was cancel-requested before that step.
C4_CriticalAlwaysStarts ==
  \A t \in Tasks : (is_critical[t] /\ Entered(t)) => (payloadCalls[t] = 1 /\ payload[t] = "moved")

C4_Witness ==
  is_critical["T"] /\ cancelledBeforeStart["T"] /\ payloadCalls["T"] = 1

SpecTransitions == {<<"kNew", "kQueued">>, <<"kQueued", "kRunning">>, <<"kRunning", "kSuspended">>, <<"kRunning", "kCompleted">>, <<"kSuspended", "kQueued">>, <<"kSuspended", "kCancelled">>}

CodeTransitions == {<<"kNew", "kQueued">>, <<"kQueued", "kRunning">>, <<"kRunning", "kSuspended">>, <<"kRunning", "kCompleted">>, <<"kSuspended", "kQueued">>, <<"kRunning", "kCancelled">>}

CancelWinners(t) == {c \in Cancellers : wk[t][c] \in {"fin", "nc", "or", "sched", "acct"}}

\* C8: cancellation_reason_ is write-once: of all RequestCancel calls the first
\* alone changes it, from kNone to its reason, and it never changes again; that
\* call alone goes on to Wakeup(kCancelRequest) and to the counter.
C8_CancellationReasonWriteOnce ==
  /\ [](/\ Cardinality(CancelWinners("T")) + cancel_count <= 1
        /\ cancellation_reason["T"] = "kNone" <=> (\A c \in Cancellers : wk["T"][c] = "idle")
        /\ \A c \in CancelWinners("T") : cancellation_reason["T"] = ReasonOf[c]
        /\ (\A c \in Cancellers : wk["T"][c] = "done") => cancel_count = 1)
  /\ [][cancellation_reason["T"] # "kNone" => cancellation_reason'["T"] = cancellation_reason["T"]]_vars

\* Both callers have returned; the second one's reason is the one that stuck.
C8_Witness ==
  /\ \A c \in Cancellers : wk["T"][c] = "done"
  /\ cancellation_reason["T"] = ReasonOf["c2"]
  /\ cancel_count = 1

\* W is inside WaitUntil(T): past its entry test and not yet returned.
InWaitUntil(t) ==
  /\ wu_result[t] = "none"
  /\ pc[t] = "wu_cancel" \/ wait_manager[t] = "finish" \/ pc[t] \in {"wu_after", "wu_after_cancel"}

\* C9: whatever the interleaving of the waiter's WaitUntil with the target's
\* terminal transition and its WakeupAll, once the target is finished the
\* waiter is rescheduled and its WaitUntil returns; and a WaitUntil begun
\* after the target finished returns without suspending.
C9_WaiterReturns ==
  /\ [][(pc["W"] = "co_body" /\ pc'["W"] # "co_body" /\ IsFinishedState(state["T"]))
          => (wu_result'["W"] = "returned" /\ pc'["W"] = "wu_done" /\ state'["W"] = "kRunning")]_vars
  /\ (IsFinishedState(state["T"]) /\ InWaitUntil("W")) ~> (wu_result["W"] # "none")

\* W went to sleep waiting for T, was woken through finish_waiters and returned.
C9_Witness ==
  /\ wu_result["W"] = "returned"
  /\ wakeup_source["W"] = "kWaitList"
  /\ IsFinishedState(state["T"])

C11_FrameReturnedBeforeFinish ==
  /\ [](\A t \in Tasks :
          /\ IsFinishedState(state[t]) => ~coro[t]
          /\ pc[t] \in {"ds_setstate", "ds_wakeall", "wa_fin", "wa_or", "wa_sched"} => ~coro[t]
          /\ (task_pipe[t] \/ pc[t] \in {"ds_store", "co_entry"}) => coro[t])
  /\ [][\A t \in Tasks : (coro'[t] /\ ~coro[t]) => (pc[t] = "idle" /\ pc'[t] = "ds_store")]_vars

\* T is finished, holds no frame, and is about to wake its waiter W.
C11_Witness ==
  /\ IsFinishedState(state["T"]) /\ ~coro["T"]
  /\ pc["T"] = "ds_wakeall" /\ waiting["W"] = "finish"

\* C12: WaitUntil throws WaitInterruptedException only at its two tests,
\* before sleeping and after waking, each reached only when the target was
\* found not finished, and only if ShouldCancel() (cancel-requested and
\* cancellable); on a finished target it returns, cancel-requested or not; a
\* waiter that is not cancellable is never interrupted.
C12_WaitInterrupted ==
  /\ [][(wu_result'["W"] = "interrupted" /\ wu_result["W"] = "none")
          => (/\ pc["W"] \in {"wu_cancel", "wu_after_cancel"}
              /\ cancellation_reason["W"] # "kNone" /\ is_cancellable["W"])]_vars
  /\ [][(pc'["W"] \in {"wu_cancel", "wu_after_cancel"} /\ pc'["W"] # pc["W"])
          => ~IsFinishedState(state["T"])]_vars
  /\ [][(pc["W"] \in {"co_body", "wu_after"} /\ pc'["W"] # pc["W"] /\ IsFinishedState(state["T"]))
          => wu_result'["W"] = "returned"]_vars
  /\ [][(pc["W"] \in {"wu_cancel", "wu_after_cancel"} /\ pc'["W"] # pc["W"] /\ ~is_cancellable["W"])
          => wu_result'["W"] # "interrupted"]_vars

\* W slept, was woken by a cancel request and left WaitUntil by the exception.
C12_Witness ==
  /\ wu_result["W"] = "interrupted"
  /\ wakeup_source["W"] = "kCancelRequest"
  /\ ~IsFinishedState(state["T"])

C14_PayloadCalledOnce ==
  \A t \in Tasks :
    /\ payloadCalls[t] <= 1
    /\ state[t] = "kCompleted" => payloadCalls[t] = 1
    /\ payloadCalls[t] = 1 <=> payload[t] = "moved"

\* T slept, was resumed, returned, and is kCompleted with its payload called once.
C14_Witness ==
  /\ state["T"] = "kCompleted" /\ payloadCalls["T"] = 1
  /\ wakeup_source["T"] # "kNone"

(***************************************************************************)
(* C15.  On a worker thread current_task_context_ptr is non-null exactly   *)
(* while DoStep is inside its CurrentTaskScope (the coroutine is resumed   *)
(* or AfterAsleep runs), and then it points to the task of that DoStep;    *)
(* on every exit of DoStep, the exit by a thrown exception included, the   *)
(* pointer is null again and the exception-handling globals are swapped    *)
(* back (the thread has its own, the task's store has the task's); the     *)
(* pointer of a thread only changes from or to null, so a thread never     *)
(* has two tasks current at once.                                          *)
(***************************************************************************)
ScopePcs == {"co_entry", "co_body", "sl_resume", "sl_remove", "sl_load", "sl_store", "wu_cancel", "wu_after", "wu_after_cancel", "wu_done", "ds_after", "fa_check", "fa_wake", "fa_or", "ds_switch"}

InScope(t) == pc[t] \in ScopePcs

C15_CurrentTaskScope ==
  /\ [](\A t \in Tasks :
          /\ InScope(t) => /\ worker[t] = [current_task_context_ptr |-> t, eh |-> t]
                           /\ eh_globals[t] = "thread"
          /\ ~InScope(t) => /\ worker[t] \in {NoThread, FreshThread}
                            /\ eh_globals[t] = t
          /\ pc[t] \in {"idle", "thrown", "crashed"} => worker[t] = NoThread)
  /\ [](\A th \in ThreadLocals : idle_workers[th] > 0 => th = FreshThread)
  /\ [][\A t \in Tasks :
          worker'[t].current_task_context_ptr # worker[t].current_task_context_ptr
            => \/ "nullptr" \in {worker[t].current_task_context_ptr, worker'[t].current_task_context_ptr}
               \/ "none" \in {worker[t].current_task_context_ptr, worker'[t].current_task_context_ptr}]_vars
  /\ [][\A t \in Tasks :
          (worker[t] = NoThread /\ worker'[t] # NoThread) => worker'[t] = FreshThread]_vars

\* T's step threw and the worker thread it ran on is back in the pool with its
\* thread-locals restored, while W is current on a worker thread.
C15_Witness ==
  /\ pc["T"] = "thrown"
  /\ worker["T"] = NoThread
  /\ eh_globals["T"] = "T"
  /\ worker["W"].current_task_context_ptr = "W"
  /\ idle_workers[FreshThread] = NumWorkers - 1

(***************************************************************************)
(* The environment of the queue.                                           *)
(***************************************************************************)
\* How many handles are taken on each side, and how many times the queue is resized.
\* A behaviour that resizes the queue takes one handle per side at most: a side
\* takes a second handle before any SetSoftMaxSize only, and SetSoftMaxSize is
\* called while neither side has taken a second handle.
MaxGets == 2

MaxResizes == 1

\* How many tasks are inside an operation of the queue at a time.
MaxInProgress == 2

InProgress == Cardinality({a \in Actors : qpc[a] # "idle"})

\* A UASSERT failed: the process is gone.
Aborted == dtor = "uassert" \/ \E a \in Actors : qpc[a] = "uassert"

\* The soft maximum sizes given to Create() and to SetSoftMaxSize().
CreateSizes == {1}

SoftMaxSizes == {0, 2}

\* The second task of a side takes its first handle after the first task did.
\* A queue with a single producer (consumer) has one task on that side, and a
\* second one that calls GetProducer (GetConsumer) only where it must not:
\* while the first task holds its handle.
ActiveProducers ==
  IF gets.producer = 0 THEN {"p1"}
  ELSE IF multi_producer \/ has_handle["p1"] THEN Producers ELSE {"p1"}

ActiveConsumers ==
  IF gets.consumer = 0 THEN {"c1"}
  ELSE IF multi_consumer \/ has_handle["c1"] THEN Consumers ELSE {"c1"}

\* queue_.try_dequeue: the inner queue keeps the order of the values of each
\* producer, so it hands out a value that no older value of its producer precedes.
\* With a single producer every value goes in and out through single_producer_token_.
Dequeueable == {i \in 1..Len(queue) : \A j \in 1..(i - 1) : multi_producer /\ queue[j][1] # queue[i][1]}

(***************************************************************************)
(* Producer and Consumer handles: GetProducer, GetConsumer and the         *)
(* destructors of the handles (MarkProducerIsDead, MarkConsumerIsDead).    *)
(***************************************************************************)

\* GetProducer that adds one to the counter whatever it holds.
GetProducerAddsOne(a) ==
  /\ ~Aborted
  /\ dtor = "alive"
  /\ qpc[a] = "idle"
  /\ InProgress < MaxInProgress
  /\ ~has_handle[a]
  /\ gets.producer < MaxGets
  /\ a \in ActiveProducers
  /\ gets.producer = 0 \/ resizes = 0
  /\ producers_count' = Add(producers_count, 1)
  /\ gets' = [gets EXCEPT !.producer = @ + 1]
  /\ started_dead' = [b \in Actors |-> IF b \in Consumers THEN FALSE ELSE started_dead[b]]
  /\ frame' = [frame EXCEPT ![a] = [NoFrame EXCEPT !.old = producers_count]]
  /\ qpc' = [qpc EXCEPT ![a] = "gp_after"]
  /\ UNCHANGED <<multi_producer, multi_consumer, consumers_count, capacity, remaining_capacity, size, nonfull_event, nonempty_event, queue, has_handle, qres, next_value, resizes, suspended, push_result, popped, drained, dtor, taskVars>>

\* GetProducer: utils::AtomicUpdate(producers_count_) to 1 from kCreatedAndDead, else to old + 1.
GetProducer(a) ==
  /\ ~Aborted
  /\ dtor = "alive"
  /\ qpc[a] = "idle"
  /\ InProgress < MaxInProgress
  /\ ~has_handle[a]
  /\ gets.producer < MaxGets
  /\ a \in ActiveProducers
  /\ gets.producer = 0 \/ resizes = 0
  /\ producers_count' = IF producers_count = kCreatedAndDead THEN 1 ELSE Add(producers_count, 1)
  /\ gets' = [gets EXCEPT !.producer = @ + 1]
  /\ started_dead' = [b \in Actors |-> IF b \in Consumers THEN FALSE ELSE started_dead[b]]
  /\ frame' = [frame EXCEPT ![a] = [NoFrame EXCEPT !.old = producers_count]]
  /\ qpc' = [qpc EXCEPT ![a] = "gp_after"]
  /\ UNCHANGED <<multi_producer, multi_consumer, consumers_count, capacity, remaining_capacity, size, nonfull_event, nonempty_event, queue, has_handle, qres, next_value, resizes, suspended, push_result, popped, drained, dtor, taskVars>>

\* GetProducer without the UASSERT.
GetProducerAfterWithoutUassert(a) ==
  /\ ~Aborted
  /\ qpc[a] = "gp_after"
  /\ (frame[a].old = kCreatedAndDead /\ multi_consumer) => size >= kSemaphoreUnlockValue
  /\ size' = IF frame[a].old = kCreatedAndDead THEN Sub(size, kSemaphoreUnlockValue) ELSE size
  /\ qpc' = [qpc EXCEPT ![a] = "idle"]
  /\ has_handle' = [has_handle EXCEPT ![a] = TRUE]
  /\ frame' = [frame EXCEPT ![a] = NoFrame]
  /\ UNCHANGED <<multi_producer, multi_consumer, producers_count, consumers_count, capacity, remaining_capacity, nonfull_event, nonempty_event, queue, qres, next_value, gets, resizes, suspended, started_dead, push_result, popped, drained, dtor, taskVars>>

\* GetProducer: consumer_side_.DecreaseSize(kSemaphoreUnlockValue) if the side was
\* kCreatedAndDead (a semaphore waits for the permits); UASSERT; the handle is built.
GetProducerAfter(a) ==
  /\ ~Aborted
  /\ qpc[a] = "gp_after"
  /\ (frame[a].old = kCreatedAndDead /\ multi_consumer) => size >= kSemaphoreUnlockValue
  /\ size' = IF frame[a].old = kCreatedAndDead THEN Sub(size, kSemaphoreUnlockValue) ELSE size
  /\ IF ~multi_producer /\ frame[a].old = 1
        THEN qpc' = [qpc EXCEPT ![a] = "uassert"] /\ UNCHANGED has_handle
        ELSE qpc' = [qpc EXCEPT ![a] = "idle"] /\ has_handle' = [has_handle EXCEPT ![a] = TRUE]
  /\ frame' = [frame EXCEPT ![a] = NoFrame]
  /\ UNCHANGED <<multi_producer, multi_consumer, producers_count, consumers_count, capacity, remaining_capacity, nonfull_event, nonempty_event, queue, qres, next_value, gets, resizes, suspended, started_dead, push_result, popped, drained, dtor, taskVars>>

\* MarkProducerIsDead that only updates the counter.
MarkProducerIsDeadWithoutUnlock(a) ==
  /\ ~Aborted
  /\ qpc[a] = "idle"
  /\ InProgress < MaxInProgress
  /\ has_handle[a]
  /\ producers_count' = IF producers_count = 1 THEN kCreatedAndDead ELSE Sub(producers_count, 1)
  /\ has_handle' = [has_handle EXCEPT ![a] = FALSE]
  /\ UNCHANGED <<multi_producer, multi_consumer, consumers_count, capacity, remaining_capacity, size, nonfull_event, nonempty_event, queue, qpc, frame, qres, next_value, gets, resizes, suspended, started_dead, push_result, popped, drained, dtor, taskVars>>

\* ~Producer(): MarkProducerIsDead: AtomicUpdate to kCreatedAndDead from 1, else to old - 1;
\* the last handle goes on to consumer_side_.IncreaseSize(kSemaphoreUnlockValue).
MarkProducerIsDead(a) ==
  /\ ~Aborted
  /\ qpc[a] = "idle"
  /\ InProgress < MaxInProgress
  /\ has_handle[a]
  /\ producers_count' = IF producers_count = 1 THEN kCreatedAndDead ELSE Sub(producers_count, 1)
  /\ has_handle' = [has_handle EXCEPT ![a] = FALSE]
  /\ frame' = [frame EXCEPT ![a] = [NoFrame EXCEPT !.old = kSemaphoreUnlockValue]]
  /\ qpc' = [qpc EXCEPT ![a] = IF producers_count = 1 THEN "cs_increase" ELSE "idle"]
  /\ UNCHANGED <<multi_producer, multi_consumer, consumers_count, capacity, remaining_capacity, size, nonfull_event, nonempty_event, queue, qres, next_value, gets, resizes, suspended, started_dead, push_result, popped, drained, dtor, taskVars>>

\* GetConsumer: utils::AtomicUpdate(consumers_count_) to 1 from kCreatedAndDead, else to old + 1.
GetConsumer(a) ==
  /\ ~Aborted
  /\ dtor = "alive"
  /\ qpc[a] = "idle"
  /\ InProgress < MaxInProgress
  /\ ~has_handle[a]
  /\ gets.consumer < MaxGets
  /\ a \in ActiveConsumers
  /\ gets.consumer = 0 \/ resizes = 0
  /\ consumers_count' = IF consumers_count = kCreatedAndDead THEN 1 ELSE Add(consumers_count, 1)
  /\ gets' = [gets EXCEPT !.consumer = @ + 1]
  /\ started_dead' = [b \in Actors |-> IF b \in Producers THEN FALSE ELSE started_dead[b]]
  /\ frame' = [frame EXCEPT ![a] = [NoFrame EXCEPT !.old = consumers_count]]
  /\ qpc' = [qpc EXCEPT ![a] = "gc_after"]
  /\ UNCHANGED <<multi_producer, multi_consumer, producers_count, capacity, remaining_capacity, size, nonfull_event, nonempty_event, queue, has_handle, qres, next_value, resizes, suspended, push_result, popped, drained, dtor, taskVars>>

\* GetConsumer: producer_side_.DecreaseCapacity(kSemaphoreUnlockValue) if the side was
\* kCreatedAndDead (a semaphore waits for the permits); UASSERT; the handle is built.
GetConsumerAfter(a) ==
  /\ ~Aborted
  /\ qpc[a] = "gc_after"
  /\ (frame[a].old = kCreatedAndDead /\ multi_producer) => remaining_capacity >= kSemaphoreUnlockValue
  /\ remaining_capacity' = IF frame[a].old = kCreatedAndDead THEN Sub(remaining_capacity, kSemaphoreUnlockValue) ELSE remaining_capacity
  /\ IF ~multi_consumer /\ frame[a].old = 1
        THEN qpc' = [qpc EXCEPT ![a] = "uassert"] /\ UNCHANGED has_handle
        ELSE qpc' = [qpc EXCEPT ![a] = "idle"] /\ has_handle' = [has_handle EXCEPT ![a] = TRUE]
  /\ frame' = [frame EXCEPT ![a] = NoFrame]
  /\ UNCHANGED <<multi_producer, multi_consumer, producers_count, consumers_count, capacity, size, nonfull_event, nonempty_event, queue, qres, next_value, gets, resizes, suspended, started_dead, push_result, popped, drained, dtor, taskVars>>

\* MarkConsumerIsDead that only updates the counter.
MarkConsumerIsDeadWithoutUnlock(a) ==
  /\ ~Aborted
  /\ qpc[a] = "idle"
  /\ InProgress < MaxInProgress
  /\ has_handle[a]
  /\ consumers_count' = IF consumers_count = 1 THEN kCreatedAndDead ELSE Sub(consumers_count, 1)
  /\ has_handle' = [has_handle EXCEPT ![a] = FALSE]
  /\ UNCHANGED <<multi_producer, multi_consumer, producers_count, capacity, remaining_capacity, size, nonfull_event, nonempty_event, queue, qpc, frame, qres, next_value, gets, resizes, suspended, started_dead, push_result, popped, drained, dtor, taskVars>>

\* ~Consumer(): MarkConsumerIsDead: AtomicUpdate to kCreatedAndDead from 1, else to old - 1;
\* the last handle goes on to producer_side_.IncreaseCapacity(kSemaphoreUnlockValue).
MarkConsumerIsDead(a) ==
  /\ ~Aborted
  /\ qpc[a] = "idle"
  /\ InProgress < MaxInProgress
  /\ has_handle[a]
  /\ consumers_count' = IF consumers_count = 1 THEN kCreatedAndDead ELSE Sub(consumers_count, 1)
  /\ has_handle' = [has_handle EXCEPT ![a] = FALSE]
  /\ frame' = [frame EXCEPT ![a] = [NoFrame EXCEPT !.old = kSemaphoreUnlockValue]]
  /\ qpc' = [qpc EXCEPT ![a] = IF consumers_count = 1 THEN "ps_increase" ELSE "idle"]
  /\ UNCHANGED <<multi_producer, multi_consumer, producers_count, capacity, remaining_capacity, size, nonfull_event, nonempty_event, queue, qres, next_value, gets, resizes, suspended, started_dead, push_result, popped, drained, dtor, taskVars>>

(***************************************************************************)
(* ProducerSide and ConsumerSide: the counters and their events.  With     *)
(* MultipleProducer (MultipleConsumer) the counter is a semaphore: taking  *)
(* permits waits until there are enough, giving them back never waits.     *)
(***************************************************************************)

\* ProducerSide::IncreaseCapacity(count): remaining_capacity_ += count, or
\* remaining_capacity_.unlock_shared_count(count).
IncreaseCapacity(a) ==
  /\ ~Aborted
  /\ qpc[a] = "ps_increase"
  /\ remaining_capacity' = Add(remaining_capacity, frame[a].old)
  /\ qpc' = [qpc EXCEPT ![a] = IF multi_producer THEN "idle" ELSE "ps_increase_send"]
  /\ frame' = [frame EXCEPT ![a] = IF multi_producer THEN NoFrame ELSE @]
  /\ UNCHANGED <<multi_producer, multi_consumer, producers_count, consumers_count, capacity, size, nonfull_event, nonempty_event, queue, has_handle, qres, next_value, gets, resizes, suspended, started_dead, push_result, popped, drained, dtor, taskVars>>

\* ProducerSide<false>::IncreaseCapacity: nonfull_event_.Send().
IncreaseCapacitySend(a) ==
  /\ ~Aborted
  /\ qpc[a] = "ps_increase_send"
  /\ nonfull_event' = TRUE
  /\ qpc' = [qpc EXCEPT ![a] = "idle"]
  /\ frame' = [frame EXCEPT ![a] = NoFrame]
  /\ UNCHANGED <<multi_producer, multi_consumer, producers_count, consumers_count, capacity, remaining_capacity, size, nonempty_event, queue, has_handle, qres, next_value, gets, resizes, suspended, started_dead, push_result, popped, drained, dtor, taskVars>>

\* ConsumerSide::IncreaseSize(count): size_ += count, or size_.unlock_shared_count(count).
IncreaseSize(a) ==
  /\ ~Aborted
  /\ qpc[a] = "cs_increase"
  /\ size' = Add(size, frame[a].old)
  /\ qpc' = [qpc EXCEPT ![a] = IF multi_consumer THEN "idle" ELSE "cs_increase_send"]
  /\ frame' = [frame EXCEPT ![a] = IF multi_consumer THEN NoFrame ELSE @]
  /\ UNCHANGED <<multi_producer, multi_consumer, producers_count, consumers_count, capacity, remaining_capacity, nonfull_event, nonempty_event, queue, has_handle, qres, next_value, gets, resizes, suspended, started_dead, push_result, popped, drained, dtor, taskVars>>

\* ConsumerSide<false>::IncreaseSize: nonempty_event_.Send().
IncreaseSizeSend(a) ==
  /\ ~Aborted
  /\ qpc[a] = "cs_increase_send"
  /\ nonempty_event' = TRUE
  /\ qpc' = [qpc EXCEPT ![a] = "idle"]
  /\ frame' = [frame EXCEPT ![a] = NoFrame]
  /\ UNCHANGED <<multi_producer, multi_consumer, producers_count, consumers_count, capacity, remaining_capacity, size, nonfull_event, queue, has_handle, qres, next_value, gets, resizes, suspended, started_dead, push_result, popped, drained, dtor, taskVars>>

\* ProducerSide::DecreaseCapacity(count): remaining_capacity_ -= count, or
\* remaining_capacity_.try_lock_shared_until_count({}, count), which waits for the permits.
DecreaseCapacity(a) ==
  /\ ~Aborted
  /\ qpc[a] = "ps_decrease"
  /\ multi_producer => remaining_capacity >= frame[a].old
  /\ remaining_capacity' = Sub(remaining_capacity, frame[a].old)
  /\ qpc' = [qpc EXCEPT ![a] = "idle"]
  /\ frame' = [frame EXCEPT ![a] = NoFrame]
  /\ UNCHANGED <<multi_producer, multi_consumer, producers_count, consumers_count, capacity, size, nonfull_event, nonempty_event, queue, has_handle, qres, next_value, gets, resizes, suspended, started_dead, push_result, popped, drained, dtor, taskVars>>

\* SetSoftMaxSize(max_size): capacity_.exchange(max_size), then the producer side
\* is increased or decreased by the difference.
SetSoftMaxSize(a, max_size) ==
  /\ ~Aborted
  /\ dtor = "alive"
  /\ qpc[a] = "idle"
  /\ InProgress < MaxInProgress
  /\ max_size <= kUnbounded
  /\ resizes < MaxResizes
  /\ gets.producer <= 1 /\ gets.consumer <= 1
  /\ capacity' = max_size
  /\ resizes' = resizes + 1
  /\ frame' = [frame EXCEPT ![a] = [NoFrame EXCEPT !.old = IF max_size > capacity THEN max_size - capacity ELSE capacity - max_size]]
  /\ qpc' = [qpc EXCEPT ![a] = IF max_size > capacity THEN "ps_increase"
                                  ELSE IF max_size < capacity THEN "ps_decrease" ELSE "idle"]
  /\ UNCHANGED <<multi_producer, multi_consumer, producers_count, consumers_count, remaining_capacity, size, nonfull_event, nonempty_event, queue, has_handle, qres, next_value, gets, suspended, started_dead, push_result, popped, drained, dtor, taskVars>>

(***************************************************************************)
(* Push and PushNoblock.                                                   *)
(***************************************************************************)

\* Producer::Push(value, deadline): GenericQueue::Push, ProducerSide::Push.
Push(a) ==
  /\ ~Aborted
  /\ qpc[a] = "idle"
  /\ InProgress < MaxInProgress
  /\ has_handle[a]
  /\ next_value <= MaxValues
  /\ frame' = [frame EXCEPT ![a] = [blocking |-> TRUE, reachable |-> FALSE, attempt |-> 1, value |-> next_value, old |-> 0]]
  /\ qpc' = [qpc EXCEPT ![a] = IF multi_producer THEN "mp_lock" ELSE "sp_consumers"]
  /\ qres' = [qres EXCEPT ![a] = "none"]
  /\ suspended' = [suspended EXCEPT ![a] = FALSE]
  /\ started_dead' = [started_dead EXCEPT ![a] = (consumers_count = kCreatedAndDead /\ \A b \in Actors : qpc[b] \notin {"ps_increase", "ps_increase_send"})]
  /\ next_value' = next_value + 1
  /\ UNCHANGED <<multi_producer, multi_consumer, producers_count, consumers_count, capacity, remaining_capacity, size, nonfull_event, nonempty_event, queue, has_handle, gets, resizes, push_result, popped, drained, dtor, taskVars>>

\* ProducerSide<true>::Push that does not test ShouldCancel().
PushIgnoresShouldCancel(a) ==
  /\ ~Aborted
  /\ qpc[a] = "idle"
  /\ InProgress < MaxInProgress
  /\ has_handle[a]
  /\ next_value <= MaxValues
  /\ multi_producer
  /\ frame' = [frame EXCEPT ![a] = [blocking |-> TRUE, reachable |-> FALSE, attempt |-> 0, value |-> next_value, old |-> 0]]
  /\ qpc' = [qpc EXCEPT ![a] = "mp_lock"]
  /\ qres' = [qres EXCEPT ![a] = "none"]
  /\ suspended' = [suspended EXCEPT ![a] = FALSE]
  /\ started_dead' = [started_dead EXCEPT ![a] = FALSE]
  /\ next_value' = next_value + 1
  /\ UNCHANGED <<multi_producer, multi_consumer, producers_count, consumers_count, capacity, remaining_capacity, size, nonfull_event, nonempty_event, queue, has_handle, gets, resizes, push_result, popped, drained, dtor, taskVars>>

\* ProducerSide<true>::Push(value, deadline) called by a task whose
\* engine::current_task::ShouldCancel() is true: !ShouldCancel() && ... is false
\* before try_lock_shared_until and DoPush are evaluated.  The frame keeps
\* attempt = 0: the Push tried nothing.  (Push above is the call of a task that
\* is not to be cancelled; ProducerSide<false>::Push does not test ShouldCancel.)
PushShouldCancel(a) ==
  /\ ~Aborted
  /\ qpc[a] = "idle"
  /\ InProgress < MaxInProgress
  /\ has_handle[a]
  /\ next_value <= MaxValues
  /\ multi_producer
  /\ frame' = [frame EXCEPT ![a] = [blocking |-> TRUE, reachable |-> FALSE, attempt |-> 0, value |-> next_value, old |-> 0]]
  /\ qpc' = [qpc EXCEPT ![a] = "returned"]
  /\ qres' = [qres EXCEPT ![a] = "false"]
  /\ suspended' = [suspended EXCEPT ![a] = FALSE]
  /\ started_dead' = [started_dead EXCEPT ![a] = FALSE]
  /\ next_value' = next_value + 1
  /\ UNCHANGED <<multi_producer, multi_consumer, producers_count, consumers_count, capacity, remaining_capacity, size, nonfull_event, nonempty_event, queue, has_handle, gets, resizes, push_result, popped, drained, dtor, taskVars>>

\* Producer::PushNoblock(value): GenericQueue::PushNoblock, ProducerSide::PushNoblock.
PushNoblock(a) ==
  /\ ~Aborted
  /\ qpc[a] = "idle"
  /\ InProgress < MaxInProgress
  /\ has_handle[a]
  /\ next_value <= MaxValues
  /\ frame' = [frame EXCEPT ![a] = [blocking |-> FALSE, reachable |-> FALSE, attempt |-> 1, value |-> next_value, old |-> 0]]
  /\ qpc' = [qpc EXCEPT ![a] = IF multi_producer THEN "mp_lock" ELSE "sp_consumers"]
  /\ qres' = [qres EXCEPT ![a] = "none"]
  /\ suspended' = [suspended EXCEPT ![a] = FALSE]
  /\ started_dead' = [started_dead EXCEPT ![a] = (consumers_count = kCreatedAndDead /\ \A b \in Actors : qpc[b] \notin {"ps_increase", "ps_increase_send"})]
  /\ next_value' = next_value + 1
  /\ UNCHANGED <<multi_producer, multi_consumer, producers_count, consumers_count, capacity, remaining_capacity, size, nonfull_event, nonempty_event, queue, has_handle, gets, resizes, push_result, popped, drained, dtor, taskVars>>

\* DoPush without the NoMoreConsumers() test.
SingleDoPushWithoutConsumersTest(a) ==
  /\ ~Aborted
  /\ qpc[a] = "sp_consumers"
  /\ qpc' = [qpc EXCEPT ![a] = "sp_capacity"]
  /\ UNCHANGED <<multi_producer, multi_consumer, producers_count, consumers_count, capacity, remaining_capacity, size, nonfull_event, nonempty_event, queue, has_handle, frame, qres, next_value, gets, resizes, suspended, started_dead, push_result, popped, drained, dtor, taskVars>>

\* ProducerSide<false>::DoPush: if (queue_.NoMoreConsumers() ...) return false.
SingleDoPushConsumers(a) ==
  /\ ~Aborted
  /\ qpc[a] = "sp_consumers"
  /\ IF consumers_count = kCreatedAndDead
        THEN IF frame[a].blocking /\ frame[a].attempt = 1
             THEN qpc' = [qpc EXCEPT ![a] = "sp_wait"] /\ UNCHANGED <<qres, frame>>
             ELSE /\ qpc' = [qpc EXCEPT ![a] = "returned"]
                  /\ qres' = [qres EXCEPT ![a] = "false"]
                  /\ UNCHANGED frame
        ELSE qpc' = [qpc EXCEPT ![a] = "sp_capacity"] /\ UNCHANGED <<qres, frame>>
  /\ UNCHANGED <<multi_producer, multi_consumer, producers_count, consumers_count, capacity, remaining_capacity, size, nonfull_event, nonempty_event, queue, has_handle, next_value, gets, resizes, suspended, started_dead, push_result, popped, drained, dtor, taskVars>>

\* ProducerSide<false>::DoPush: if (... || !remaining_capacity_) return false.
SingleDoPushCapacity(a) ==
  /\ ~Aborted
  /\ qpc[a] = "sp_capacity"
  /\ IF remaining_capacity = 0
        THEN IF frame[a].blocking /\ frame[a].attempt = 1
             THEN qpc' = [qpc EXCEPT ![a] = "sp_wait"] /\ UNCHANGED <<qres, frame>>
             ELSE /\ qpc' = [qpc EXCEPT ![a] = "returned"]
                  /\ qres' = [qres EXCEPT ![a] = "false"]
                  /\ UNCHANGED frame
        ELSE qpc' = [qpc EXCEPT ![a] = "sp_decrease"] /\ UNCHANGED <<qres, frame>>
  /\ UNCHANGED <<multi_producer, multi_consumer, producers_count, consumers_count, capacity, remaining_capacity, size, nonfull_event, nonempty_event, queue, has_handle, next_value, gets, resizes, suspended, started_dead, push_result, popped, drained, dtor, taskVars>>

\* ProducerSide<false>::DoPush: --remaining_capacity_.
SingleDoPushDecrease(a) ==
  /\ ~Aborted
  /\ qpc[a] = "sp_decrease"
  /\ remaining_capacity' = Sub(remaining_capacity, 1)
  /\ qpc' = [qpc EXCEPT ![a] = "enqueue"]
  /\ UNCHANGED <<multi_producer, multi_consumer, producers_count, consumers_count, capacity, size, nonfull_event, nonempty_event, queue, has_handle, frame, qres, next_value, gets, resizes, suspended, started_dead, push_result, popped, drained, dtor, taskVars>>

\* ProducerSide<false>::Push: nonfull_event_.WaitForEventUntil(deadline) takes the signal
\* if the event is signaled, else the task goes to sleep.
SinglePushWait(a, reachable) ==
  /\ ~Aborted
  /\ qpc[a] = "sp_wait"
  /\ IF nonfull_event
        THEN /\ nonfull_event' = FALSE
             /\ frame' = [frame EXCEPT ![a].attempt = 2]
             /\ qpc' = [qpc EXCEPT ![a] = "sp_consumers"]
             /\ UNCHANGED suspended
        ELSE /\ qpc' = [qpc EXCEPT ![a] = "sp_sleep"]
             /\ suspended' = [suspended EXCEPT ![a] = TRUE]
             /\ frame' = [frame EXCEPT ![a].reachable = reachable]
             /\ UNCHANGED nonfull_event
  /\ UNCHANGED <<multi_producer, multi_consumer, producers_count, consumers_count, capacity, remaining_capacity, size, nonempty_event, queue, has_handle, qres, next_value, gets, resizes, started_dead, push_result, popped, drained, dtor, taskVars>>

\* WaitForEventUntil: Send() woke the task; it takes the signal and DoPush runs again.
SinglePushWake(a) ==
  /\ ~Aborted
  /\ qpc[a] = "sp_sleep"
  /\ nonfull_event
  /\ nonfull_event' = FALSE
  /\ frame' = [frame EXCEPT ![a].attempt = 2]
  /\ qpc' = [qpc EXCEPT ![a] = "sp_consumers"]
  /\ UNCHANGED <<multi_producer, multi_consumer, producers_count, consumers_count, capacity, remaining_capacity, size, nonempty_event, queue, has_handle, qres, next_value, gets, resizes, suspended, started_dead, push_result, popped, drained, dtor, taskVars>>

\* WaitForEventUntil: the deadline woke the task; Push returns false.
SinglePushDeadline(a) ==
  /\ ~Aborted
  /\ qpc[a] = "sp_sleep"
  /\ frame[a].reachable
  /\ ~nonfull_event
  /\ qpc' = [qpc EXCEPT ![a] = "returned"]
     /\ qres' = [qres EXCEPT ![a] = "false"]
     /\ UNCHANGED frame
  /\ UNCHANGED <<multi_producer, multi_consumer, producers_count, consumers_count, capacity, remaining_capacity, size, nonfull_event, nonempty_event, queue, has_handle, next_value, gets, resizes, suspended, started_dead, push_result, popped, drained, dtor, taskVars>>

\* ProducerSide<true>::Push: remaining_capacity_.try_lock_shared_until(deadline), and
\* try_lock_shared() of PushNoblock.
MultiPushLock(a, reachable) ==
  /\ ~Aborted
  /\ qpc[a] = "mp_lock"
  /\ IF remaining_capacity > 0
        THEN /\ remaining_capacity' = Sub(remaining_capacity, 1)
             /\ qpc' = [qpc EXCEPT ![a] = "mp_consumers"]
             /\ UNCHANGED <<qres, frame, suspended>>
        ELSE IF frame[a].blocking
             THEN /\ qpc' = [qpc EXCEPT ![a] = "mp_sleep"]
                  /\ suspended' = [suspended EXCEPT ![a] = TRUE]
                  /\ frame' = [frame EXCEPT ![a].reachable = reachable]
                  /\ UNCHANGED <<remaining_capacity, qres>>
             ELSE /\ qpc' = [qpc EXCEPT ![a] = "returned"]
                  /\ qres' = [qres EXCEPT ![a] = "false"]
                  /\ UNCHANGED frame
                  /\ UNCHANGED <<remaining_capacity, suspended>>
  /\ UNCHANGED <<multi_producer, multi_consumer, producers_count, consumers_count, capacity, size, nonfull_event, nonempty_event, queue, has_handle, next_value, gets, resizes, started_dead, push_result, popped, drained, dtor, taskVars>>

\* try_lock_shared_until: a permit was given back and the sleeping task takes it.
MultiPushWake(a) ==
  /\ ~Aborted
  /\ qpc[a] = "mp_sleep"
  /\ remaining_capacity > 0
  /\ remaining_capacity' = Sub(remaining_capacity, 1)
  /\ qpc' = [qpc EXCEPT ![a] = "mp_consumers"]
  /\ UNCHANGED <<multi_producer, multi_consumer, producers_count, consumers_count, capacity, size, nonfull_event, nonempty_event, queue, has_handle, frame, qres, next_value, gets, resizes, suspended, started_dead, push_result, popped, drained, dtor, taskVars>>

\* try_lock_shared_until: the deadline woke the task; Push returns false.
MultiPushDeadline(a) ==
  /\ ~Aborted
  /\ qpc[a] = "mp_sleep"
  /\ frame[a].reachable
  /\ remaining_capacity = 0
  /\ qpc' = [qpc EXCEPT ![a] = "returned"]
     /\ qres' = [qres EXCEPT ![a] = "false"]
     /\ UNCHANGED frame
  /\ UNCHANGED <<multi_producer, multi_consumer, producers_count, consumers_count, capacity, remaining_capacity, size, nonfull_event, nonempty_event, queue, has_handle, next_value, gets, resizes, suspended, started_dead, push_result, popped, drained, dtor, taskVars>>

\* ProducerSide<true>::DoPush that returns false without unlock_shared().
MultiDoPushConsumersKeepsPermit(a) ==
  /\ ~Aborted
  /\ qpc[a] = "mp_consumers"
  /\ IF consumers_count = kCreatedAndDead
        THEN /\ qpc' = [qpc EXCEPT ![a] = "returned"]
             /\ qres' = [qres EXCEPT ![a] = "false"]
        ELSE /\ qpc' = [qpc EXCEPT ![a] = "enqueue"]
             /\ UNCHANGED qres
  /\ UNCHANGED <<multi_producer, multi_consumer, producers_count, consumers_count, capacity, remaining_capacity, size, nonfull_event, nonempty_event, queue, has_handle, frame, next_value, gets, resizes, suspended, started_dead, push_result, popped, drained, dtor, taskVars>>

\* ProducerSide<true>::DoPush: if (queue_.NoMoreConsumers()) { unlock_shared(); return false; }
MultiDoPushConsumers(a) ==
  /\ ~Aborted
  /\ qpc[a] = "mp_consumers"
  /\ IF consumers_count = kCreatedAndDead
        THEN /\ remaining_capacity' = Add(remaining_capacity, 1)
             /\ qpc' = [qpc EXCEPT ![a] = "returned"]
             /\ qres' = [qres EXCEPT ![a] = "false"]
             /\ UNCHANGED frame
        ELSE /\ qpc' = [qpc EXCEPT ![a] = "enqueue"]
             /\ UNCHANGED <<remaining_capacity, qres, frame>>
  /\ UNCHANGED <<multi_producer, multi_consumer, producers_count, consumers_count, capacity, size, nonfull_event, nonempty_event, queue, has_handle, next_value, gets, resizes, suspended, started_dead, push_result, popped, drained, dtor, taskVars>>

\* GenericQueue::DoPush: queue_.enqueue(token, std::move(value)).
QueueDoPush(a) ==
  /\ ~Aborted
  /\ qpc[a] = "enqueue"
  /\ queue' = Append(queue, <<a, frame[a].value>>)
  /\ qpc' = [qpc EXCEPT ![a] = "pushed"]
  /\ UNCHANGED <<multi_producer, multi_consumer, producers_count, consumers_count, capacity, remaining_capacity, size, nonfull_event, nonempty_event, has_handle, frame, qres, next_value, gets, resizes, suspended, started_dead, push_result, popped, drained, dtor, taskVars>>

\* GenericQueue::DoPush: consumer_side_.OnElementPushed(): ++size_, or size_.unlock_shared();
\* ProducerSide<true>::DoPush then returns true.
OnElementPushed(a) ==
  /\ ~Aborted
  /\ qpc[a] = "pushed"
  /\ size' = Add(size, 1)
  /\ IF ~multi_consumer
        THEN qpc' = [qpc EXCEPT ![a] = "cs_send"] /\ UNCHANGED <<qres, frame>>
        ELSE IF ~multi_producer
             THEN qpc' = [qpc EXCEPT ![a] = "sp_reset"] /\ UNCHANGED <<qres, frame>>
             ELSE /\ qpc' = [qpc EXCEPT ![a] = "returned"]
                  /\ qres' = [qres EXCEPT ![a] = "true"]
                  /\ UNCHANGED frame
  /\ UNCHANGED <<multi_producer, multi_consumer, producers_count, consumers_count, capacity, remaining_capacity, nonfull_event, nonempty_event, queue, has_handle, next_value, gets, resizes, suspended, started_dead, push_result, popped, drained, dtor, taskVars>>

\* ConsumerSide<false>::OnElementPushed: nonempty_event_.Send().
OnElementPushedSend(a) ==
  /\ ~Aborted
  /\ qpc[a] = "cs_send"
  /\ nonempty_event' = TRUE
  /\ IF ~multi_producer
        THEN qpc' = [qpc EXCEPT ![a] = "sp_reset"] /\ UNCHANGED <<qres, frame>>
        ELSE /\ qpc' = [qpc EXCEPT ![a] = "returned"]
             /\ qres' = [qres EXCEPT ![a] = "true"]
             /\ UNCHANGED frame
  /\ UNCHANGED <<multi_producer, multi_consumer, producers_count, consumers_count, capacity, remaining_capacity, size, nonfull_event, queue, has_handle, next_value, gets, resizes, suspended, started_dead, push_result, popped, drained, dtor, taskVars>>

\* ProducerSide<false>::DoPush: nonfull_event_.Reset(); return true.
SingleDoPushReset(a) ==
  /\ ~Aborted
  /\ qpc[a] = "sp_reset"
  /\ nonfull_event' = FALSE
  /\ qpc' = [qpc EXCEPT ![a] = "returned"]
     /\ qres' = [qres EXCEPT ![a] = "true"]
     /\ UNCHANGED frame
  /\ UNCHANGED <<multi_producer, multi_consumer, producers_count, consumers_count, capacity, remaining_capacity, size, nonempty_event, queue, has_handle, next_value, gets, resizes, suspended, started_dead, push_result, popped, drained, dtor, taskVars>>

(***************************************************************************)
(* Pop and PopNoblock.                                                     *)
(***************************************************************************)

\* Consumer::Pop(value, deadline): GenericQueue::Pop, ConsumerSide::Pop.
Pop(a) ==
  /\ ~Aborted
  /\ qpc[a] = "idle"
  /\ InProgress < MaxInProgress
  /\ has_handle[a]
  /\ frame' = [frame EXCEPT ![a] = [blocking |-> TRUE, reachable |-> FALSE, attempt |-> 1, value |-> 0, old |-> 0]]
  /\ qpc' = [qpc EXCEPT ![a] = IF multi_consumer THEN "mc_lock" ELSE "dequeue"]
  /\ qres' = [qres EXCEPT ![a] = "none"]
  /\ suspended' = [suspended EXCEPT ![a] = FALSE]
  /\ started_dead' = [started_dead EXCEPT ![a] = (producers_count = kCreatedAndDead /\ \A b \in Actors : qpc[b] \notin {"cs_increase", "cs_increase_send"})]
  /\ UNCHANGED <<multi_producer, multi_consumer, producers_count, consumers_count, capacity, remaining_capacity, size, nonfull_event, nonempty_event, queue, has_handle, next_value, gets, resizes, push_result, popped, drained, dtor, taskVars>>

\* Consumer::PopNoblock(value): GenericQueue::PopNoblock, ConsumerSide::PopNoblock.
PopNoblock(a) ==
  /\ ~Aborted
  /\ qpc[a] = "idle"
  /\ InProgress < MaxInProgress
  /\ has_handle[a]
  /\ frame' = [frame EXCEPT ![a] = [blocking |-> FALSE, reachable |-> FALSE, attempt |-> 1, value |-> 0, old |-> 0]]
  /\ qpc' = [qpc EXCEPT ![a] = IF multi_consumer THEN "mc_lock" ELSE "dequeue"]
  /\ qres' = [qres EXCEPT ![a] = "none"]
  /\ suspended' = [suspended EXCEPT ![a] = FALSE]
  /\ started_dead' = [started_dead EXCEPT ![a] = (producers_count = kCreatedAndDead /\ \A b \in Actors : qpc[b] \notin {"cs_increase", "cs_increase_send"})]
  /\ UNCHANGED <<multi_producer, multi_consumer, producers_count, consumers_count, capacity, remaining_capacity, size, nonfull_event, nonempty_event, queue, has_handle, next_value, gets, resizes, push_result, popped, drained, dtor, taskVars>>

\* ConsumerSide<true>::Pop: size_.try_lock_shared_until(deadline), and try_lock_shared()
\* of PopNoblock.
MultiPopLock(a, reachable) ==
  /\ ~Aborted
  /\ qpc[a] = "mc_lock"
  /\ IF size > 0
        THEN /\ size' = Sub(size, 1)
             /\ qpc' = [qpc EXCEPT ![a] = "dequeue"]
             /\ UNCHANGED <<qres, frame, suspended>>
        ELSE IF frame[a].blocking
             THEN /\ qpc' = [qpc EXCEPT ![a] = "mc_sleep"]
                  /\ suspended' = [suspended EXCEPT ![a] = TRUE]
                  /\ frame' = [frame EXCEPT ![a].reachable = reachable]
                  /\ UNCHANGED <<size, qres>>
             ELSE /\ qpc' = [qpc EXCEPT ![a] = "returned"]
                  /\ qres' = [qres EXCEPT ![a] = "false"]
                  /\ UNCHANGED frame
                  /\ UNCHANGED <<size, suspended>>
  /\ UNCHANGED <<multi_producer, multi_consumer, producers_count, consumers_count, capacity, remaining_capacity, nonfull_event, nonempty_event, queue, has_handle, next_value, gets, resizes, started_dead, push_result, popped, drained, dtor, taskVars>>

\* try_lock_shared_until: a permit was given back and the sleeping task takes it.
MultiPopWake(a) ==
  /\ ~Aborted
  /\ qpc[a] = "mc_sleep"
  /\ size > 0
  /\ size' = Sub(size, 1)
  /\ qpc' = [qpc EXCEPT ![a] = "dequeue"]
  /\ UNCHANGED <<multi_producer, multi_consumer, producers_count, consumers_count, capacity, remaining_capacity, nonfull_event, nonempty_event, queue, has_handle, frame, qres, next_value, gets, resizes, suspended, started_dead, push_result, popped, drained, dtor, taskVars>>

\* try_lock_shared_until: the deadline woke the task; Pop returns false.
MultiPopDeadline(a) ==
  /\ ~Aborted
  /\ qpc[a] = "mc_sleep"
  /\ frame[a].reachable
  /\ size = 0
  /\ qpc' = [qpc EXCEPT ![a] = "returned"]
     /\ qres' = [qres EXCEPT ![a] = "false"]
     /\ UNCHANGED frame
  /\ UNCHANGED <<multi_producer, multi_consumer, producers_count, consumers_count, capacity, remaining_capacity, size, nonfull_event, nonempty_event, queue, has_handle, next_value, gets, resizes, suspended, started_dead, push_result, popped, drained, dtor, taskVars>>

\* GenericQueue::DoPop that takes a value of any producer of the inner queue, also when
\* the queue has a single producer.
QueueDoPopAnyProducer(a) ==
  /\ ~Aborted
  /\ qpc[a] = "dequeue"
  /\ queue # <<>>
  /\ \E i \in 1..Len(queue) :
       /\ frame' = [frame EXCEPT ![a].value = queue[i][2]]
       /\ queue' = [j \in 1..(Len(queue) - 1) |-> IF j < i THEN queue[j] ELSE queue[j + 1]]
  /\ qpc' = [qpc EXCEPT ![a] = "popped"]
  /\ UNCHANGED <<multi_producer, multi_consumer, producers_count, consumers_count, capacity, remaining_capacity, size, nonfull_event, nonempty_event, has_handle, qres, next_value, gets, resizes, suspended, started_dead, push_result, popped, drained, dtor, taskVars>>

\* GenericQueue::DoPop: queue_.try_dequeue(token, value).  When it fails,
\* ConsumerSide<true>::DoPop gives the permit back and returns false;
\* ConsumerSide<false>::Pop goes on to NoMoreProducers(), PopNoblock returns false.
QueueDoPop(a) ==
  /\ ~Aborted
  /\ qpc[a] = "dequeue"
  /\ IF queue # <<>>
        THEN \E i \in Dequeueable :
               /\ frame' = [frame EXCEPT ![a].value = queue[i][2]]
               /\ queue' = [j \in 1..(Len(queue) - 1) |-> IF j < i THEN queue[j] ELSE queue[j + 1]]
               /\ qpc' = [qpc EXCEPT ![a] = "popped"]
               /\ UNCHANGED <<size, qres>>
        ELSE IF multi_consumer
             THEN /\ size' = Add(size, 1)
                  /\ qpc' = [qpc EXCEPT ![a] = "returned"]
                  /\ qres' = [qres EXCEPT ![a] = "false"]
                  /\ UNCHANGED frame
                  /\ UNCHANGED queue
             ELSE IF frame[a].blocking /\ frame[a].attempt = 1
                  THEN /\ qpc' = [qpc EXCEPT ![a] = "sc_producers"]
                       /\ UNCHANGED <<queue, size, qres, frame>>
                  ELSE /\ qpc' = [qpc EXCEPT ![a] = "returned"]
                       /\ qres' = [qres EXCEPT ![a] = "false"]
                       /\ UNCHANGED frame
                       /\ UNCHANGED <<queue, size>>
  /\ UNCHANGED <<multi_producer, multi_consumer, producers_count, consumers_count, capacity, remaining_capacity, nonfull_event, nonempty_event, has_handle, next_value, gets, resizes, suspended, started_dead, push_result, popped, drained, dtor, taskVars>>

\* GenericQueue::DoPop: producer_side_.OnElementPopped(): ++remaining_capacity_, or
\* remaining_capacity_.unlock_shared(); ConsumerSide<true>::DoPop then returns true.
OnElementPopped(a) ==
  /\ ~Aborted
  /\ qpc[a] = "popped"
  /\ remaining_capacity' = Add(remaining_capacity, 1)
  /\ IF ~multi_producer
        THEN qpc' = [qpc EXCEPT ![a] = "ps_send"] /\ UNCHANGED <<qres, frame>>
        ELSE IF ~multi_consumer
             THEN qpc' = [qpc EXCEPT ![a] = "sc_decrease"] /\ UNCHANGED <<qres, frame>>
             ELSE /\ qpc' = [qpc EXCEPT ![a] = "returned"]
                  /\ qres' = [qres EXCEPT ![a] = "true"]
                  /\ UNCHANGED frame
  /\ UNCHANGED <<multi_producer, multi_consumer, producers_count, consumers_count, capacity, size, nonfull_event, nonempty_event, queue, has_handle, next_value, gets, resizes, suspended, started_dead, push_result, popped, drained, dtor, taskVars>>

\* ProducerSide<false>::OnElementPopped: nonfull_event_.Send().
OnElementPoppedSend(a) ==
  /\ ~Aborted
  /\ qpc[a] = "ps_send"
  /\ nonfull_event' = TRUE
  /\ IF ~multi_consumer
        THEN qpc' = [qpc EXCEPT ![a] = "sc_decrease"] /\ UNCHANGED <<qres, frame>>
        ELSE /\ qpc' = [qpc EXCEPT ![a] = "returned"]
             /\ qres' = [qres EXCEPT ![a] = "true"]
             /\ UNCHANGED frame
  /\ UNCHANGED <<multi_producer, multi_consumer, producers_count, consumers_count, capacity, remaining_capacity, size, nonempty_event, queue, has_handle, next_value, gets, resizes, suspended, started_dead, push_result, popped, drained, dtor, taskVars>>

\* ConsumerSide<false>::DoPop: --size_.
SingleDoPopDecrease(a) ==
  /\ ~Aborted
  /\ qpc[a] = "sc_decrease"
  /\ size' = Sub(size, 1)
  /\ qpc' = [qpc EXCEPT ![a] = "sc_reset"]
  /\ UNCHANGED <<multi_producer, multi_consumer, producers_count, consumers_count, capacity, remaining_capacity, nonfull_event, nonempty_event, queue, has_handle, frame, qres, next_value, gets, resizes, suspended, started_dead, push_result, popped, drained, dtor, taskVars>>

\* ConsumerSide<false>::DoPop: nonempty_event_.Reset(); return true.
SingleDoPopReset(a) ==
  /\ ~Aborted
  /\ qpc[a] = "sc_reset"
  /\ nonempty_event' = FALSE
  /\ qpc' = [qpc EXCEPT ![a] = "returned"]
     /\ qres' = [qres EXCEPT ![a] = "true"]
     /\ UNCHANGED frame
  /\ UNCHANGED <<multi_producer, multi_consumer, producers_count, consumers_count, capacity, remaining_capacity, size, nonfull_event, queue, has_handle, next_value, gets, resizes, suspended, started_dead, push_result, popped, drained, dtor, taskVars>>

\* Pop that waits for the event whether or not producers are left.
SinglePopWithoutNoMoreProducers(a) ==
  /\ ~Aborted
  /\ qpc[a] = "sc_producers"
  /\ qpc' = [qpc EXCEPT ![a] = "sc_wait"]
  /\ UNCHANGED <<multi_producer, multi_consumer, producers_count, consumers_count, capacity, remaining_capacity, size, nonfull_event, nonempty_event, queue, has_handle, frame, qres, next_value, gets, resizes, suspended, started_dead, push_result, popped, drained, dtor, taskVars>>

\* ConsumerSide<false>::Pop: if (queue_.NoMoreProducers() || ...) return DoPop(...).
SinglePopProducers(a) ==
  /\ ~Aborted
  /\ qpc[a] = "sc_producers"
  /\ IF producers_count = kCreatedAndDead
        THEN /\ qpc' = [qpc EXCEPT ![a] = "dequeue"]
             /\ frame' = [frame EXCEPT ![a].attempt = 2]
        ELSE /\ qpc' = [qpc EXCEPT ![a] = "sc_wait"]
             /\ UNCHANGED frame
  /\ UNCHANGED <<multi_producer, multi_consumer, producers_count, consumers_count, capacity, remaining_capacity, size, nonfull_event, nonempty_event, queue, has_handle, qres, next_value, gets, resizes, suspended, started_dead, push_result, popped, drained, dtor, taskVars>>

\* ConsumerSide<false>::Pop: nonempty_event_.WaitForEventUntil(deadline) takes the signal
\* if the event is signaled, else the task goes to sleep.
SinglePopWait(a, reachable) ==
  /\ ~Aborted
  /\ qpc[a] = "sc_wait"
  /\ IF nonempty_event
        THEN /\ nonempty_event' = FALSE
             /\ frame' = [frame EXCEPT ![a].attempt = 2]
             /\ qpc' = [qpc EXCEPT ![a] = "dequeue"]
             /\ UNCHANGED suspended
        ELSE /\ qpc' = [qpc EXCEPT ![a] = "sc_sleep"]
             /\ suspended' = [suspended EXCEPT ![a] = TRUE]
             /\ frame' = [frame EXCEPT ![a].reachable = reachable]
             /\ UNCHANGED nonempty_event
  /\ UNCHANGED <<multi_producer, multi_consumer, producers_count, consumers_count, capacity, remaining_capacity, size, nonfull_event, queue, has_handle, qres, next_value, gets, resizes, started_dead, push_result, popped, drained, dtor, taskVars>>

\* WaitForEventUntil: Send() woke the task; it takes the signal and DoPop runs again.
SinglePopWake(a) ==
  /\ ~Aborted
  /\ qpc[a] = "sc_sleep"
  /\ nonempty_event
  /\ nonempty_event' = FALSE
  /\ frame' = [frame EXCEPT ![a].attempt = 2]
  /\ qpc' = [qpc EXCEPT ![a] = "dequeue"]
  /\ UNCHANGED <<multi_producer, multi_consumer, producers_count, consumers_count, capacity, remaining_capacity, size, nonfull_event, queue, has_handle, qres, next_value, gets, resizes, suspended, started_dead, push_result, popped, drained, dtor, taskVars>>

\* WaitForEventUntil: the deadline woke the task; Pop returns false.
SinglePopDeadline(a) ==
  /\ ~Aborted
  /\ qpc[a] = "sc_sleep"
  /\ frame[a].reachable
  /\ ~nonempty_event
  /\ qpc' = [qpc EXCEPT ![a] = "returned"]
     /\ qres' = [qres EXCEPT ![a] = "false"]
     /\ UNCHANGED frame
  /\ UNCHANGED <<multi_producer, multi_consumer, producers_count, consumers_count, capacity, remaining_capacity, size, nonfull_event, nonempty_event, queue, has_handle, next_value, gets, resizes, suspended, started_dead, push_result, popped, drained, dtor, taskVars>>

\* Push, PushNoblock, Pop or PopNoblock has returned to its caller.
Return(a) ==
  /\ ~Aborted
  /\ qpc[a] = "returned"
  /\ qpc' = [qpc EXCEPT ![a] = "idle"]
  /\ qres' = [qres EXCEPT ![a] = "none"]
  /\ suspended' = [suspended EXCEPT ![a] = FALSE]
  /\ started_dead' = [started_dead EXCEPT ![a] = FALSE]
  /\ push_result' = IF a \in Producers THEN [push_result EXCEPT ![frame[a].value] = qres[a]] ELSE push_result
  /\ popped' = IF a \in Consumers /\ qres[a] = "true" THEN [popped EXCEPT ![a] = Append(@, frame[a].value)] ELSE popped
  /\ frame' = [frame EXCEPT ![a] = NoFrame]
  /\ UNCHANGED <<multi_producer, multi_consumer, producers_count, consumers_count, capacity, remaining_capacity, size, nonfull_event, nonempty_event, queue, has_handle, next_value, gets, resizes, drained, dtor, taskVars>>

(***************************************************************************)
(* ~GenericQueue(): the last shared_ptr to the queue is gone, which is     *)
(* after every handle was dropped and every call has returned.             *)
(***************************************************************************)

\* ~GenericQueue(): UASSERT(consumers_count_ == kCreatedAndDead || !consumers_count_) and
\* the same of producers_count_.
Destructor ==
  /\ ~Aborted
  /\ dtor = "alive"
  /\ \A a \in Actors : qpc[a] = "idle" /\ ~has_handle[a]
  /\ dtor' = IF /\ consumers_count \in {kCreatedAndDead, 0}
                   /\ producers_count \in {kCreatedAndDead, 0}
                THEN "pop" ELSE "uassert"
  /\ UNCHANGED <<multi_producer, multi_consumer, producers_count, consumers_count, capacity, remaining_capacity, size, nonfull_event, nonempty_event, queue, has_handle, qpc, frame, qres, next_value, gets, resizes, suspended, started_dead, push_result, popped, drained, taskVars>>

\* ~GenericQueue() that leaves the values in the inner queue.
DestructorWithoutPopNoblock ==
  /\ ~Aborted
  /\ dtor = "pop"
  /\ dtor' = "size"
  /\ UNCHANGED <<multi_producer, multi_consumer, producers_count, consumers_count, capacity, remaining_capacity, size, nonfull_event, nonempty_event, queue, has_handle, qpc, frame, qres, next_value, gets, resizes, suspended, started_dead, push_result, popped, drained, taskVars>>

\* ~GenericQueue(): while (consumer_side_.PopNoblock(token, value)) {}: one PopNoblock,
\* which is try_lock_shared() of size_ with MultipleConsumer, DoPop, OnElementPopped,
\* and --size_ and Reset() without MultipleConsumer.
DestructorPopNoblock ==
  /\ ~Aborted
  /\ dtor = "pop"
  /\ IF (multi_consumer /\ size = 0) \/ queue = <<>>
        THEN /\ dtor' = "size"
             /\ UNCHANGED <<queue, remaining_capacity, size, nonfull_event, nonempty_event, drained>>
        ELSE \E i \in Dequeueable :
               /\ drained' = Append(drained, queue[i][2])
               /\ queue' = [j \in 1..(Len(queue) - 1) |-> IF j < i THEN queue[j] ELSE queue[j + 1]]
               /\ remaining_capacity' = Add(remaining_capacity, 1)
               /\ nonfull_event' = (IF multi_producer THEN nonfull_event ELSE TRUE)
               /\ size' = Sub(size, 1)
               /\ nonempty_event' = (IF multi_consumer THEN nonempty_event ELSE FALSE)
               /\ UNCHANGED dtor
  /\ UNCHANGED <<multi_producer, multi_consumer, producers_count, consumers_count, capacity, has_handle, qpc, frame, qres, next_value, gets, resizes, suspended, started_dead, push_result, popped, taskVars>>

\* ~GenericQueue() that leaves the kSemaphoreUnlockValue permits on the consumer side.
DestructorKeepsUnlockPermits ==
  /\ ~Aborted
  /\ dtor = "size"
  /\ dtor' = "capacity"
  /\ UNCHANGED <<multi_producer, multi_consumer, producers_count, consumers_count, capacity, remaining_capacity, size, nonfull_event, nonempty_event, queue, has_handle, qpc, frame, qres, next_value, gets, resizes, suspended, started_dead, push_result, popped, drained, taskVars>>

\* ~GenericQueue(): if (producers_count_ == kCreatedAndDead)
\* consumer_side_.DecreaseSize(kSemaphoreUnlockValue), which waits for the permits
\* with MultipleConsumer.
DestructorDecreaseSize ==
  /\ ~Aborted
  /\ dtor = "size"
  /\ (producers_count = kCreatedAndDead /\ multi_consumer) => size >= kSemaphoreUnlockValue
  /\ size' = IF producers_count = kCreatedAndDead THEN Sub(size, kSemaphoreUnlockValue) ELSE size
  /\ dtor' = "capacity"
  /\ UNCHANGED <<multi_producer, multi_consumer, producers_count, consumers_count, capacity, remaining_capacity, nonfull_event, nonempty_event, queue, has_handle, qpc, frame, qres, next_value, gets, resizes, suspended, started_dead, push_result, popped, drained, taskVars>>

\* ~GenericQueue(): if (consumers_count_ == kCreatedAndDead)
\* producer_side_.DecreaseCapacity(kSemaphoreUnlockValue), which waits for the
\* permits with MultipleProducer.
DestructorDecreaseCapacity ==
  /\ ~Aborted
  /\ dtor = "capacity"
  /\ (consumers_count = kCreatedAndDead /\ multi_producer) => remaining_capacity >= kSemaphoreUnlockValue
  /\ remaining_capacity' = IF consumers_count = kCreatedAndDead THEN Sub(remaining_capacity, kSemaphoreUnlockValue) ELSE remaining_capacity
  /\ dtor' = "soft"
  /\ UNCHANGED <<multi_producer, multi_consumer, producers_count, consumers_count, capacity, size, nonfull_event, nonempty_event, queue, has_handle, qpc, frame, qres, next_value, gets, resizes, suspended, started_dead, push_result, popped, drained, taskVars>>

\* ~GenericQueue(): SetSoftMaxSize(kUnbounded): capacity_.exchange, and IncreaseCapacity
\* by the difference if there is one.
DestructorSetSoftMaxSize ==
  /\ ~Aborted
  /\ dtor = "soft"
  /\ capacity' = kUnbounded
  /\ remaining_capacity' = Add(remaining_capacity, kUnbounded - capacity)
  /\ nonfull_event' = (IF kUnbounded > capacity /\ ~multi_producer THEN TRUE ELSE nonfull_event)
  /\ dtor' = "increase"
  /\ UNCHANGED <<multi_producer, multi_consumer, producers_count, consumers_count, size, nonempty_event, queue, has_handle, qpc, frame, qres, next_value, gets, resizes, suspended, started_dead, push_result, popped, drained, taskVars>>

\* ~GenericQueue(): consumer_side_.IncreaseSize(kUnbounded).
DestructorIncreaseSize ==
  /\ ~Aborted
  /\ dtor = "increase"
  /\ size' = Add(size, kUnbounded)
  /\ nonempty_event' = (IF multi_consumer THEN nonempty_event ELSE TRUE)
  /\ dtor' = "destroyed"
  /\ UNCHANGED <<multi_producer, multi_consumer, producers_count, consumers_count, capacity, remaining_capacity, nonfull_event, queue, has_handle, qpc, frame, qres, next_value, gets, resizes, suspended, started_dead, push_result, popped, drained, taskVars>>

(***************************************************************************)
(* The queue with its producers, its consumers and a task that resizes it. *)
(***************************************************************************)
ProducerNext(a) ==
  \/ GetProducer(a)
  \/ GetProducerAfter(a)
  \/ MarkProducerIsDead(a)
  \/ Push(a)
  \/ PushNoblock(a)
  \/ SingleDoPushConsumers(a)
  \/ SingleDoPushCapacity(a)
  \/ SingleDoPushDecrease(a)
  \/ \E reachable \in BOOLEAN : SinglePushWait(a, reachable)
  \/ SinglePushWake(a)
  \/ SinglePushDeadline(a)
  \/ \E reachable \in BOOLEAN : MultiPushLock(a, reachable)
  \/ MultiPushWake(a)
  \/ MultiPushDeadline(a)
  \/ MultiDoPushConsumers(a)
  \/ QueueDoPush(a)
  \/ OnElementPushed(a)
  \/ OnElementPushedSend(a)
  \/ SingleDoPushReset(a)
  \/ IncreaseSize(a)
  \/ IncreaseSizeSend(a)
  \/ Return(a)

ConsumerNext(a) ==
  \/ GetConsumer(a)
  \/ GetConsumerAfter(a)
  \/ MarkConsumerIsDead(a)
  \/ Pop(a)
  \/ PopNoblock(a)
  \/ \E reachable \in BOOLEAN : MultiPopLock(a, reachable)
  \/ MultiPopWake(a)
  \/ MultiPopDeadline(a)
  \/ QueueDoPop(a)
  \/ OnElementPopped(a)
  \/ OnElementPoppedSend(a)
  \/ SingleDoPopDecrease(a)
  \/ SingleDoPopReset(a)
  \/ SinglePopProducers(a)
  \/ \E reachable \in BOOLEAN : SinglePopWait(a, reachable)
  \/ SinglePopWake(a)
  \/ SinglePopDeadline(a)
  \/ IncreaseCapacity(a)
  \/ IncreaseCapacitySend(a)
  \/ Return(a)

ResizerNext(a) ==
  \/ \E max_size \in SoftMaxSizes : SetSoftMaxSize(a, max_size)
  \/ DecreaseCapacity(a)
  \/ IncreaseCapacity(a)
  \/ IncreaseCapacitySend(a)

DestructorNext ==
  \/ Destructor
  \/ DestructorPopNoblock
  \/ DestructorDecreaseSize
  \/ DestructorDecreaseCapacity
  \/ DestructorSetSoftMaxSize
  \/ DestructorIncreaseSize

QueueNext ==
  \/ \E a \in Producers : ProducerNext(a)
  \/ \E a \in Consumers : ConsumerNext(a)

QueueInit ==
  /\ TaskInit
  /\ is_critical = [t \in Tasks |-> FALSE]
  /\ \E mp \in BOOLEAN, mc \in BOOLEAN, max_size \in CreateSizes : QueueCtor(mp, mc, max_size)

SpecQueue == QueueInit /\ [][QueueNext]_vars

\* The whole life of a queue: its producers and consumers, a task that calls
\* SetSoftMaxSize, and the destructor when all of them are done.
LifeNext ==
  \/ \E a \in Producers : ProducerNext(a)
  \/ \E a \in Consumers : ConsumerNext(a)
  \/ \E a \in Resizers : ResizerNext(a)
  \/ DestructorNext

SpecLife == QueueInit /\ [][LifeNext]_vars

\* The producers and consumers of a queue, with tasks that call Push while they
\* are to be cancelled.
PushCancelNext ==
  \/ \E a \in Producers : ProducerNext(a)
  \/ \E a \in Producers : PushShouldCancel(a)
  \/ \E a \in Consumers : ConsumerNext(a)

SpecPushCancel == QueueInit /\ [][PushCancelNext]_vars

(***************************************************************************)
(* A queue whose tasks hold their handles and take no other: the producer  *)
(* and the consumer of a single side, both tasks of a multiple side.  The  *)
(* tasks push and pop, and drop their handles; a task inside an operation  *)
(* goes on (the task processor runs every task that is ready, and a        *)
(* deadline that can be reached is reached).                               *)
(***************************************************************************)
QueueWithHandles(mp, mc, max_size) ==
  /\ multi_producer = mp
  /\ multi_consumer = mc
  /\ producers_count = (IF mp THEN 2 ELSE 1)
  /\ consumers_count = (IF mc THEN 2 ELSE 1)
  /\ capacity = IF max_size < kUnbounded THEN max_size ELSE kUnbounded
  /\ remaining_capacity = IF max_size < kUnbounded THEN max_size ELSE kUnbounded
  /\ size = 0
  /\ nonfull_event = FALSE
  /\ nonempty_event = FALSE
  /\ queue = <<>>
  /\ has_handle = [a \in Actors |-> \/ a = "p1" \/ a = "c1"
                                    \/ a = "p2" /\ mp
                                    \/ a = "c2" /\ mc]
  /\ qpc = [a \in Actors |-> "idle"]
  /\ frame = [a \in Actors |-> NoFrame]
  /\ qres = [a \in Actors |-> "none"]
  /\ next_value = 1
  /\ gets = [producer |-> IF mp THEN 2 ELSE 1, consumer |-> IF mc THEN 2 ELSE 1]
  /\ resizes = 0
  /\ suspended = [a \in Actors |-> FALSE]
  /\ started_dead = [a \in Actors |-> FALSE]
  /\ push_result = [v \in Values |-> "none"]
  /\ popped = [a \in Consumers |-> <<>>]
  /\ drained = <<>>
  /\ dtor = "alive"

UnblockInit ==
  /\ TaskInit
  /\ is_critical = [t \in Tasks |-> FALSE]
  /\ \E mp \in BOOLEAN, mc \in BOOLEAN, max_size \in CreateSizes : QueueWithHandles(mp, mc, max_size)

\* What a producer (consumer) does once it is inside Push or ~Producer()
\* (Pop or ~Consumer()).
ProducerStep(a) ==
  \/ SingleDoPushConsumers(a)
  \/ SingleDoPushCapacity(a)
  \/ SingleDoPushDecrease(a)
  \/ \E reachable \in BOOLEAN : SinglePushWait(a, reachable)
  \/ SinglePushWake(a)
  \/ SinglePushDeadline(a)
  \/ \E reachable \in BOOLEAN : MultiPushLock(a, reachable)
  \/ MultiPushWake(a)
  \/ MultiPushDeadline(a)
  \/ MultiDoPushConsumers(a)
  \/ QueueDoPush(a)
  \/ OnElementPushed(a)
  \/ OnElementPushedSend(a)
  \/ SingleDoPushReset(a)
  \/ IncreaseSize(a)
  \/ IncreaseSizeSend(a)
  \/ Return(a)

ConsumerStep(a) ==
  \/ \E reachable \in BOOLEAN : MultiPopLock(a, reachable)
  \/ MultiPopWake(a)
  \/ MultiPopDeadline(a)
  \/ QueueDoPop(a)
  \/ OnElementPopped(a)
  \/ OnElementPoppedSend(a)
  \/ SingleDoPopDecrease(a)
  \/ SingleDoPopReset(a)
  \/ SinglePopProducers(a)
  \/ \E reachable \in BOOLEAN : SinglePopWait(a, reachable)
  \/ SinglePopWake(a)
  \/ SinglePopDeadline(a)
  \/ IncreaseCapacity(a)
  \/ IncreaseCapacitySend(a)
  \/ Return(a)

UnblockNext ==
  \/ \E a \in Producers : Push(a)
  \/ \E a \in Producers : PushNoblock(a)
  \/ \E a \in Producers : MarkProducerIsDead(a)
  \/ \E a \in Producers : ProducerStep(a)
  \/ \E a \in Consumers : Pop(a)
  \/ \E a \in Consumers : PopNoblock(a)
  \/ \E a \in Consumers : MarkConsumerIsDead(a)
  \/ \E a \in Consumers : ConsumerStep(a)

SpecUnblock ==
  /\ UnblockInit
  /\ [][UnblockNext]_vars
  /\ \A a \in Producers : WF_vars(ProducerStep(a))
  /\ \A a \in Consumers : WF_vars(ConsumerStep(a))

(***************************************************************************)
(* GetSizeApproximate(), GetSoftMaxSize() and what the claims speak of.    *)
(***************************************************************************)
GetSoftMaxSize == capacity

GetSizeApproximate == size

\* The steps of Push / PushNoblock, of Pop / PopNoblock.
PushLabels == {"sp_consumers", "sp_capacity", "sp_decrease", "sp_wait", "sp_sleep", "mp_lock", "mp_sleep", "mp_consumers", "enqueue", "pushed", "cs_send", "sp_reset"}

PopLabels == {"mc_lock", "mc_sleep", "dequeue", "popped", "ps_send", "sc_decrease", "sc_reset", "sc_producers", "sc_wait", "sc_sleep"}

PushesInProgress == Cardinality({a \in Producers : qpc[a] \in PushLabels})

(***************************************************************************)
(* C16.  End-of-stream: a blocking Pop that begins after the last producer *)
(* handle was dropped (producers_count_ is kCreatedAndDead, the drop is    *)
(* over, and no handle is taken while the Pop runs) never puts the task to *)
(* sleep, and it returns false only when the queue is empty; single and    *)
(* multiple consumers alike, and every such Pop.                           *)
(***************************************************************************)
C16_EndOfStream ==
  \A a \in Consumers :
    (started_dead[a] /\ frame[a].blocking) =>
      /\ ~suspended[a]
      /\ qpc[a] # "sc_wait"
      /\ (qpc[a] = "returned" /\ qres[a] = "false") => queue = <<>>

\* A blocking Pop on the empty queue of dead producers has come back with false
\* and without sleep.
C16_Witness ==
  \E a \in Consumers :
    /\ started_dead[a] /\ frame[a].blocking
    /\ qpc[a] = "returned" /\ qres[a] = "false"
    /\ ~suspended[a]
    /\ producers_count = kCreatedAndDead

(***************************************************************************)
(* C17.  Handle lifecycle: a blocking Push that begins after the last      *)
(* consumer handle was dropped (consumers_count_ is kCreatedAndDead, the   *)
(* drop is over, and no handle is taken while the Push runs) never puts    *)
(* the task to sleep and returns false; single and multiple producers      *)
(* alike, the second and every later Push as well as the first.            *)
(***************************************************************************)
C17_PushAfterConsumersDead ==
  \A a \in Producers :
    (started_dead[a] /\ frame[a].blocking) =>
      /\ ~suspended[a]
      /\ qpc[a] = "returned" => qres[a] = "false"

\* The same for the queues with MultipleProducer only.
C17_MultiProducerOnly == multi_producer => C17_PushAfterConsumersDead

(***************************************************************************)
(* C18.  No push succeeds after the consumer side is dead: no step         *)
(* enqueues a value, and no Push / PushNoblock returns true, in a state    *)
(* in which consumers_count_ is kCreatedAndDead.                           *)
(***************************************************************************)
C18_NoPushAfterConsumersDead ==
  [][consumers_count = kCreatedAndDead =>
       /\ Len(queue') <= Len(queue)
       /\ \A a \in Producers :
            (qpc[a] # "returned" /\ qpc'[a] = "returned") => qres'[a] = "false"]_vars

\* C18 as the code keeps it: a Push / PushNoblock that begins after the last
\* consumer handle was dropped enqueues nothing and returns false; one that
\* passed DoPush's NoMoreConsumers() test before the drop goes on to enqueue.
C18_NoPushBegunAfterConsumersDead ==
  \A a \in Producers :
    started_dead[a] =>
      /\ qpc[a] \notin {"sp_capacity", "sp_decrease", "enqueue", "pushed", "cs_send", "sp_reset"}
      /\ qpc[a] = "returned" => qres[a] = "false"
      /\ \A i \in 1..Len(queue) : queue[i] # <<a, frame[a].value>>

\* A PushNoblock begun on a queue of dead consumers has returned false and the
\* queue holds nothing of it.
C18_Witness ==
  \E a \in Producers :
    /\ started_dead[a] /\ ~frame[a].blocking
    /\ qpc[a] = "returned" /\ qres[a] = "false"
    /\ consumers_count = kCreatedAndDead

LiveProducers == Cardinality({a \in Producers : has_handle[a] \/ qpc[a] \in {"gp_after", "uassert"}})

LiveConsumers == Cardinality({a \in Consumers : has_handle[a] \/ qpc[a] \in {"gc_after", "uassert"}})

C20_SizeWithinSoftMax == GetSizeApproximate <= GetSoftMaxSize + PushesInProgress

(***************************************************************************)
(* C23.  In a queue without MultipleProducer (MultipleConsumer) a          *)
(* GetProducer (GetConsumer) call made while a handle of that side is      *)
(* alive is caught by the UASSERT and builds no handle, and at no time are *)
(* there two live handles on such a side.                                  *)
(***************************************************************************)
ProducerHandles == {a \in Producers : has_handle[a]}

ConsumerHandles == {a \in Consumers : has_handle[a]}

ResizesInProgress == Cardinality({a \in Resizers : qpc[a] # "idle"})

C21_SoftCapacity ==
  ResizesInProgress = 0 => Len(queue) <= GetSoftMaxSize + PushesInProgress

(***************************************************************************)
(* C22.  SetSoftMaxSize(n) does not return while the inner queue holds     *)
(* more than n values, and after it has returned no push takes the queue   *)
(* over n values; with and without MultipleProducer.                       *)
(***************************************************************************)
C22_ShrinkBlocks ==
  [][/\ \A a \in Resizers :
          (qpc[a] \in {"ps_decrease", "ps_increase", "ps_increase_send"} /\ qpc'[a] = "idle")
            => Len(queue') <= capacity'
     /\ (resizes > 0 /\ ResizesInProgress = 0 /\ Len(queue') > Len(queue))
          => Len(queue') <= capacity]_vars

(***************************************************************************)
(* C24.  Per-producer FIFO: in a queue without MultipleProducer the values *)
(* a consumer obtains are in the order of the pushes (the values are       *)
(* numbered in that order), and a value that a Pop / PopNoblock has taken  *)
(* or returned is older than every value the inner queue still holds.      *)
(***************************************************************************)
\* The Pop / PopNoblock of the consumer has a value in hand.
Holding(c) ==
  \/ qpc[c] \in {"popped", "ps_send", "sc_decrease", "sc_reset"}
  \/ qpc[c] = "returned" /\ qres[c] = "true"

Count(seq, v) == Cardinality({i \in 1..Len(seq) : seq[i] = v})

\* How many times the value was returned by a Pop / PopNoblock.
Returned(v) ==
  LET RECURSIVE Sum(_)
      Sum(S) == IF S = {} THEN 0
                ELSE LET c == CHOOSE x \in S : TRUE IN Count(popped[c], v) + Sum(S \ {c})
  IN Sum(Consumers)

\* ... and how many times it is in the hands of a Pop / PopNoblock that has not returned.
InHand(v) == Cardinality({c \in Consumers : Holding(c) /\ frame[c].value = v})

\* The Push / PushNoblock of the value has returned false, or is about to.
PushFailed(v) ==
  \/ push_result[v] = "false"
  \/ \E p \in Producers : qpc[p] = "returned" /\ qres[p] = "false" /\ frame[p].value = v

C25_NoLossNoDuplication ==
  \A v \in Values :
    /\ Returned(v) + Count(drained, v) + InHand(v) <= 1
    /\ PushFailed(v) =>
         /\ Returned(v) + Count(drained, v) + InHand(v) = 0
         /\ \A k \in 1..Len(queue) : queue[k][2] # v
    /\ dtor = "destroyed" =>
         Returned(v) + Count(drained, v) = (IF push_result[v] = "true" THEN 1 ELSE 0)

\* A queue was destroyed after one of its two values was popped; the
\* destructor drained the other one.
C25_Witness ==
  /\ dtor = "destroyed"
  /\ popped["c1"] = <<1>>
  /\ drained = <<2>>
  /\ push_result = [v \in Values |-> "true"]

(***************************************************************************)
(* C26.  A Push / PushNoblock that returns false has enqueued nothing and  *)
(* a Pop / PopNoblock that returns false has removed nothing, and neither  *)
(* leaves a trace in the counters: remaining_capacity_ and size_ are what  *)
(* the values in the inner queue, the unlock permits of a dead side and    *)
(* the operations still in progress account for, whatever operations have  *)
(* failed before (a permit taken by a failed operation was given back).    *)
(***************************************************************************)
\* Pushes that took one from remaining_capacity_ and have not enqueued yet;
\* pops that dequeued and have not given it back yet.
PushTaken == Cardinality({p \in Producers : qpc[p] \in {"mp_consumers", "enqueue"}})

PopNotGivenBack == Cardinality({c \in Consumers : qpc[c] = "popped"})

\* Pushes that enqueued and have not added to size_ yet; pops that took one
\* from size_ and have not dequeued yet (MultipleConsumer), pops that
\* dequeued and have not taken from size_ yet (otherwise).
PushNotCounted == Cardinality({p \in Producers : qpc[p] = "pushed"})

PopTaken == Cardinality({c \in Consumers : multi_consumer /\ qpc[c] = "dequeue"})

PopNotCounted == Cardinality({c \in Consumers : ~multi_consumer /\ qpc[c] \in {"popped", "ps_send", "sc_decrease"}})

\* How many times kSemaphoreUnlockValue is in remaining_capacity_ (in size_):
\* once while the consumer (producer) side is dead, counting a drop from its
\* IncreaseCapacity (IncreaseSize) on and a new handle up to its
\* DecreaseCapacity (DecreaseSize).
UnlocksInCapacity ==
  (IF consumers_count = kCreatedAndDead THEN 1 ELSE 0)
  + Cardinality({c \in Consumers : qpc[c] = "gc_after" /\ frame[c].old = kCreatedAndDead})
  - Cardinality({c \in Consumers : qpc[c] = "ps_increase"})

UnlocksInSize ==
  (IF producers_count = kCreatedAndDead THEN 1 ELSE 0)
  + Cardinality({p \in Producers : qpc[p] = "gp_after" /\ frame[p].old = kCreatedAndDead})
  - Cardinality({p \in Producers : qpc[p] = "cs_increase"})

Wrap(n) == (n + 4 * SizeMod) % SizeMod

C26_FailureLeavesNoTrace ==
  /\ \A p \in Producers :
       (qpc[p] = "returned" /\ qres[p] = "false") =>
         \A k \in 1..Len(queue) : queue[k] # <<p, frame[p].value>>
  /\ \A c \in Consumers :
       (qpc[c] = "returned" /\ qres[c] = "false") => frame[c].value = 0
  /\ remaining_capacity =
       Wrap(capacity - Len(queue) - PushTaken - PopNotGivenBack
            + kSemaphoreUnlockValue * UnlocksInCapacity)
  /\ size =
       Wrap(Len(queue) - PushNotCounted - PopTaken + PopNotCounted
            + kSemaphoreUnlockValue * UnlocksInSize)

\* A Push of a multi-producer queue began when the consumers were dead, took
\* one of the unlock permits, gave it back and returned false.
C26_Witness ==
  /\ multi_producer
  /\ started_dead["p1"] /\ frame["p1"].blocking
  /\ qpc["p1"] = "returned" /\ qres["p1"] = "false"
  /\ Len(queue) = 1
  /\ remaining_capacity = capacity - 1 + kSemaphoreUnlockValue

(***************************************************************************)
(* C27.  Consumer death unblocks a waiting producer: a task that sleeps in *)
(* a blocking Push begun before the last consumer handle was dropped       *)
(* (whatever its deadline) can be woken as soon as the drop is over, is    *)
(* woken, and its Push returns false.                                      *)
(***************************************************************************)
AsleepInPush(p) == qpc[p] \in {"sp_sleep", "mp_sleep"}

ConsumerDropOver == \A c \in Consumers : qpc[c] \notin {"ps_increase", "ps_increase_send"}

C27_ConsumerDeathUnblocks ==
  /\ \A p \in Producers :
       (AsleepInPush(p) /\ ~started_dead[p] /\ consumers_count = kCreatedAndDead)
         ~> (qpc[p] = "returned" /\ qres[p] = "false")
  /\ [](\A p \in Producers :
          (AsleepInPush(p) /\ ~started_dead[p] /\ consumers_count = kCreatedAndDead /\ ConsumerDropOver)
            => (IF multi_producer THEN remaining_capacity > 0 ELSE nonfull_event))

\* A Push with a deadline that is never reached slept on the full queue, the
\* last consumer handle was dropped, and the Push has returned false.
C27_Witness ==
  \E p \in Producers :
    /\ suspended[p] /\ ~started_dead[p] /\ frame[p].blocking /\ ~frame[p].reachable
    /\ qpc[p] = "returned" /\ qres[p] = "false"
    /\ consumers_count = kCreatedAndDead
    /\ queue # <<>>

(***************************************************************************)
(* C28.  Producer death unblocks a waiting consumer: a task that sleeps in *)
(* a blocking Pop begun before the last producer handle was dropped can be *)
(* woken as soon as the drop is over, is woken, and its Pop returns; it    *)
(* returns false only if the inner queue holds no value but those that     *)
(* other consumers have taken the permits of and are about to dequeue, so  *)
(* a value pushed just before the drop goes to a consumer that was         *)
(* waiting.                                                                *)
(***************************************************************************)
AsleepInPop(c) == qpc[c] \in {"sc_sleep", "mc_sleep"}

ProducerDropOver == \A p \in Producers : qpc[p] \notin {"cs_increase", "cs_increase_send"}

C28_ProducerDeathUnblocks ==
  /\ \A c \in Consumers :
       (AsleepInPop(c) /\ ~started_dead[c] /\ producers_count = kCreatedAndDead)
         ~> (qpc[c] = "returned")
  /\ [](\A c \in Consumers :
          (AsleepInPop(c) /\ ~started_dead[c] /\ producers_count = kCreatedAndDead /\ ProducerDropOver)
            => (IF multi_consumer THEN size > 0 ELSE nonempty_event))
  /\ [][\A c \in Consumers :
          (/\ suspended[c] /\ ~started_dead[c] /\ producers_count = kCreatedAndDead
           /\ qpc[c] # "returned" /\ qpc'[c] = "returned" /\ qres'[c] = "false")
            => Len(queue) <= Cardinality({b \in Consumers \ {c} : multi_consumer /\ qpc[b] = "dequeue"})]_vars

\* A Pop with a deadline that is never reached slept on the empty queue, a
\* value was pushed and the last producer handle dropped, and the Pop has
\* returned true with that value.
C28_Witness ==
  \E c \in Consumers :
    /\ suspended[c] /\ ~started_dead[c] /\ frame[c].blocking /\ ~frame[c].reachable
    /\ qpc[c] = "returned" /\ qres[c] = "true" /\ frame[c].value = 1
    /\ producers_count = kCreatedAndDead
    /\ ProducerDropOver

(***************************************************************************)
(* C29.  As stated: on a queue on which no handle has ever been created    *)
(* both sides hold the kSemaphoreUnlockValue permits, the first handle of  *)
(* a side takes the permits of the opposite side away, and a blocking Pop  *)
(* on the empty queue does not sleep while no producer handle was created. *)
(***************************************************************************)
NoProducerYet == gets.producer = 0

NoConsumerYet == gets.consumer = 0

C29_CtorInstallsPermits ==
  /\ (NoProducerYet /\ NoConsumerYet) =>
       (size = kSemaphoreUnlockValue /\ remaining_capacity = Add(capacity, kSemaphoreUnlockValue))
  /\ (~NoProducerYet /\ NoConsumerYet) => size = 0
  /\ (NoProducerYet /\ ~NoConsumerYet) => remaining_capacity = Sub(capacity, Len(queue))
  /\ \A c \in Consumers : (NoProducerYet /\ frame[c].blocking) => ~AsleepInPop(c)

(***************************************************************************)
(* C29, amended.  The constructor leaves no unblocking permits: while no   *)
(* handle has ever been created the consumer side holds 0 permits, the     *)
(* producer side holds the capacity and neither event is signaled; the     *)
(* first handle of a side (old counter 0) changes neither side; and a      *)
(* blocking Pop on a queue that never had a producer sleeps, nothing can   *)
(* wake it but its deadline, and it returns only false and only after it   *)
(* slept with a deadline that is reached.                                  *)
(***************************************************************************)
C29_CtorInstallsNoPermits ==
  /\ []((NoProducerYet /\ NoConsumerYet) =>
          (/\ size = 0 /\ remaining_capacity = capacity
           /\ ~nonempty_event /\ ~nonfull_event))
  /\ [](\A c \in Consumers :
          (NoProducerYet /\ AsleepInPop(c)) => (size = 0 /\ ~nonempty_event /\ queue = <<>>))
  /\ [][\A a \in Producers \cup Consumers :
          (qpc[a] \in {"gp_after", "gc_after"} /\ qpc'[a] # qpc[a] /\ frame[a].old = 0)
            => (size' = size /\ remaining_capacity' = remaining_capacity)]_vars
  /\ [][\A c \in Consumers :
          (NoProducerYet /\ frame[c].blocking /\ qpc[c] # "returned" /\ qpc'[c] = "returned")
            => (suspended[c] /\ frame[c].reachable /\ qres'[c] = "false")]_vars

\* The first consumer handle was created on a fresh queue, no producer handle
\* was ever created, and a blocking Pop slept until its deadline and returned
\* false.
C29_Witness ==
  \E c \in Consumers :
    /\ NoProducerYet /\ gets.consumer = 1
    /\ frame[c].blocking /\ suspended[c]
    /\ qpc[c] = "returned" /\ qres[c] = "false"
    /\ size = 0 /\ remaining_capacity = capacity

(***************************************************************************)
(* C30.  Deterministic destruction: once every call has returned and every *)
(* handle is dropped, ~GenericQueue() finds both counters 0 or             *)
(* kCreatedAndDead, its PopNoblock loop ends on an empty inner queue, it   *)
(* never waits for permits that are not there, and it leaves               *)
(* remaining_capacity_ and size_ (and capacity_) equal to kUnbounded, the  *)
(* values both sides were built with.                                      *)
(***************************************************************************)
C30_DeterministicDestruction ==
  /\ dtor # "uassert"
  /\ dtor # "alive" =>
       /\ producers_count \in {0, kCreatedAndDead}
       /\ consumers_count \in {0, kCreatedAndDead}
  /\ dtor \in {"size", "capacity", "soft", "increase", "destroyed"} => queue = <<>>
  /\ dtor = "size" => ENABLED DestructorDecreaseSize
  /\ dtor = "capacity" => ENABLED DestructorDecreaseCapacity
  /\ dtor = "destroyed" =>
       /\ remaining_capacity = kUnbounded
       /\ size = kUnbounded
       /\ capacity = kUnbounded

\* A queue was destroyed after both sides had handles and dropped them, a
\* value was popped, SetSoftMaxSize was called, and the destructor drained a
\* value.
C30_Witness ==
  /\ dtor = "destroyed"
  /\ producers_count = kCreatedAndDead /\ consumers_count = kCreatedAndDead
  /\ resizes = 1
  /\ \E c \in Consumers : popped[c] # <<>>
  /\ drained # <<>>

(***************************************************************************)
(* C31.  With MultipleProducer a blocking Push of a task that is to be     *)
(* cancelled returns false at once: it takes no permit of                  *)
(* remaining_capacity_, enqueues nothing and touches neither side,         *)
(* whatever the capacity left and the consumers alive; its value is never  *)
(* in the inner queue and never popped.                                    *)
(***************************************************************************)
CancelledPush(p) == frame[p].value # 0 /\ frame[p].attempt = 0

C31_CancelledPushFails ==
  /\ [](\A p \in Producers :
          CancelledPush(p) =>
            /\ qpc[p] = "returned" /\ qres[p] = "false"
            /\ \A i \in 1..Len(queue) : queue[i][2] # frame[p].value)
  /\ [][\A p \in Producers :
          (qpc[p] = "idle" /\ CancelledPush(p)')
            => (/\ remaining_capacity' = remaining_capacity
                /\ size' = size
                /\ queue' = queue
                /\ nonfull_event' = nonfull_event
                /\ nonempty_event' = nonempty_event)]_vars
  /\ [][\A p \in Producers :
          (CancelledPush(p) /\ qpc'[p] = "idle")
            => push_result'[frame[p].value] = "false"]_vars
  /\ [](\A v \in Values :
          push_result[v] = "false" =>
            /\ \A i \in 1..Len(queue) : queue[i][2] # v
            /\ \A c \in Consumers : Count(popped[c], v) = 0)

\* A task that is to be cancelled called Push on a queue with free capacity
\* and a live consumer, and Push has returned false.
C31_Witness ==
  \E p \in Producers :
    /\ multi_producer
    /\ CancelledPush(p) /\ qpc[p] = "returned" /\ qres[p] = "false"
    /\ remaining_capacity > 0 /\ remaining_capacity <= capacity
    /\ queue = <<>>
    /\ consumers_count \in 1..2
    /\ \E c \in Consumers : has_handle[c]

ParkingWindow(t) ==
  yield_reason[t] = "kTaskWaiting" /\ pc[t] \in {"ds_after", "fa_check", "fa_wake", "fa_or", "ds_switch", "ds_park"}

\* The bits DoStep's FetchOr would find, as DoStep counts them.
BitsFoundParking(t) ==
  IF is_cancellable[t] THEN sleep_state[t] ELSE sleep_state[t] \ {"kWakeupByCancelRequest", "kNonCancellable"}

\* Schedule() calls made or committed to since the task parked, with the one
\* the finishing task's WakeupAll is about to make for its waiter.
SchedulesCommitted(t) ==
  ScheduleCount(t) + (IF t = "W" /\ pc["T"] = "wa_sched" THEN 1 ELSE 0)

C37_WakeupSourceAlwaysFound ==
  \A t \in Tasks :
    /\ pc[t] # "crashed"
    /\ pc[t] = "sl_store" => GetPrimaryWakeupSource(old_sleep_state[t]) # "logic_error"

(***************************************************************************)
(* C38.  Schedule() is never called on a task whose state is kQueued or    *)
(* kRunning (its UASSERT(state_ != kQueued) holds): the ready queue holds  *)
(* a task context at most once, and never while a worker is inside DoStep  *)
(* of that task past the point where it dequeued it.                       *)
(***************************************************************************)
C38_ScheduleOnlyWhenNotQueued ==
  /\ [](\A t \in Tasks : ready[t] <= 1)
  /\ [](\A t \in Tasks : ready[t] = 1 => pc[t] = "idle")
  /\ [][\A t \in Tasks : ready'[t] > ready[t] => state[t] \notin {"kQueued", "kRunning"}]_vars

(***************************************************************************)
(* C39.  In a queue with a single consumer, ConsumerSide<false>::DoPop     *)
(* never executes --size_ on a size_ that is 0, and size_, which is what   *)
(* GetSizeApproximate() returns, never holds a wrapped-around value: it    *)
(* is at most the number of values pushed, plus kSemaphoreUnlockValue once *)
(* the producers are dead.                                                 *)
(***************************************************************************)
C39_SingleConsumerSizeNeverUnderflows ==
  /\ [](~multi_consumer /\ dtor = "alive" =>
          size <= MaxValues + (IF producers_count = kCreatedAndDead THEN kSemaphoreUnlockValue ELSE 0))
  /\ [][\A c \in Consumers :
          (~multi_consumer /\ qpc[c] = "sc_decrease" /\ qpc'[c] # "sc_decrease") => size > 0]_vars

(***************************************************************************)
(* C40.  Counter conservation.  Whenever no Push, Pop, SetSoftMaxSize,     *)
(* GetProducer / GetConsumer or handle drop is in progress,                *)
(* remaining_capacity_ is GetSoftMaxSize() minus the number of queued      *)
(* values, plus kSemaphoreUnlockValue while the consumers are dead, and    *)
(* size_ is the number of queued values, plus kSemaphoreUnlockValue while  *)
(* the producers are dead; the sums are those of the integers, with no     *)
(* wrap-around of the counters.                                            *)
(***************************************************************************)
Quiescent ==
  /\ dtor = "alive"
  /\ \A a \in Actors : qpc[a] \in {"idle", "returned"}

C40_CounterConservation ==
  Quiescent =>
    /\ remaining_capacity =
         capacity - Len(queue) + (IF consumers_count = kCreatedAndDead THEN kSemaphoreUnlockValue ELSE 0)
    /\ size =
         Len(queue) + (IF producers_count = kCreatedAndDead THEN kSemaphoreUnlockValue ELSE 0)

====
